---- MODULE Spec2Model ----
(***************************************************************************)
(* Generation event relay of better-docs.                                  *)
(*                                                                         *)
(*   web/src/lib/agent.ts            generateDocsStream (upstream source)  *)
(*   web/src/app/api/generate/route.ts   POST: TransformStream relay,      *)
(*                                   end-of-stream scan, saveDocs, saved   *)
(*   web/src/lib/storage.ts          slugify / saveDocs / deleteProject    *)
(*   web/src/app/dashboard/page.tsx  handleGenerate: incremental SSE       *)
(*                                   decoder and dispatch; handleCancel    *)
(*                                                                         *)
(* Spec        one streaming POST: its set-up and its relay run            *)
(* LiveSpec    the same, with the fairness of the relay steps              *)
(* SpecClient  one generation of the dashboard on a given response body    *)
(* SpecStore   saveDocs and deleteProject on the projects table            *)
(* SpecBatch   one non-streaming POST (refine, generate)                   *)
(* SpecE2E     the dashboard reading the response of the relay             *)
(* SpecE2ELive the same on one run, with fairness                          *)
(* SpecScan    flush on accumulated texts of every line order              *)
(* SpecDash    one generation after another on the dashboard               *)
(* SpecConc    two relay runs in flight together                           *)
(*                                                                         *)
(* Text is a sequence of characters, a chunk a sequence of bytes.  Every   *)
(* ASCII character is one byte of the same name; EAcute is the one         *)
(* two-byte character (LeadByte, ContByte).  The prefixes "event: " and    *)
(* "data: " and the words of the protocol (kinds, JSON keys, scalars) are  *)
(* single characters of the alphabet: a line starts with the prefix or it  *)
(* does not.                                                               *)
(***************************************************************************)
EXTENDS Integers, Sequences, FiniteSets, TLC

\* ------------------------------------------------------------------------
\* Bounds of the model
\* ------------------------------------------------------------------------

\* Frames the upstream generation service sends in one relay run.
MaxFrames == 2

\* The same for the runs whose eventual end is checked.
MaxLiveFrames == 1

\* Frames of the response the dashboard reads in one generation.
MaxClientFrames == 2

\* saveDocs calls of one storage run.
MaxSaveCalls == 2

\* Frames upstream sends in a run that the dashboard reads as it is relayed.
MaxE2EFrames == 2

\* Lines of an accumulated text that the scan of flush is run on.
MaxScanLines == 6

\* Generations started on the dashboard, one after another.
MaxGenerations == 2

\* Calls of refreshHistory up to which a refine is started.
MaxRefreshes == 2

\* Projects of the history list whose docs are being fetched at a time.
MaxLoads == 1

\* ------------------------------------------------------------------------
\* Alphabet
\* ------------------------------------------------------------------------

NL == "\n"
SP == " "
Quote == "\""
LBrace == "{"
RBrace == "}"
Colon == ":"
Comma == ","
EventPrefix == "event: "
DataPrefix == "data: "
EAcute == "e'"
LeadByte == "0xC3"
ContByte == "0xA9"
Replacement == "U+FFFD"

\* Opaque non-empty JSON objects (a generated docs object).
DocsA == "{docsA}"
DocsB == "{docsB}"

JsonKeys == {"docs", "progress", "message", "error", "slug", "repoName"}
JsonScalars == {DocsA, DocsB, "10", "50", "0", "null"}

\* A value JavaScript treats as false: undefined (no such key), 0, null, "".
Absent == <<>>
Falsy(v) == v \in {Absent, <<"0">>, <<"null">>, <<Quote, Quote>>}
Truthy(v) == ~Falsy(v)

\* ------------------------------------------------------------------------
\* String operations
\* ------------------------------------------------------------------------

RECURSIVE Flatten(_)
Flatten(ss) == IF ss = <<>> THEN <<>> ELSE Head(ss) \o Flatten(Tail(ss))

\* A place that yields no character.
Dropped == ""

Kept(c) == c # Dropped

\* s.split("\n"): what lies between the line breaks; always at least one
\* line, the last one being what follows the last line break.
SplitLines(s) ==
    LET IsBreak(i) == s[i] = NL
        breaks == SelectSeq([i \in 1..Len(s) |-> i], IsBreak)
    IN [k \in 1..Len(breaks) + 1 |->
          SubSeq(s, IF k = 1 THEN 1 ELSE breaks[k - 1] + 1,
                    IF k <= Len(breaks) THEN breaks[k] - 1 ELSE Len(s))]

StartsWith(line, prefix) == Len(line) >= 1 /\ line[1] = prefix

\* line.slice(7) / line.slice(6): what follows the prefix.
SlicePrefix(line) == Tail(line)

RECURSIVE TrimLeft(_)
TrimLeft(s) == IF s # <<>> /\ Head(s) = SP THEN TrimLeft(Tail(s)) ELSE s

RECURSIVE TrimRight(_)
TrimRight(s) ==
    IF s # <<>> /\ s[Len(s)] = SP THEN TrimRight(SubSeq(s, 1, Len(s) - 1)) ELSE s

Trim(s) == TrimRight(TrimLeft(s))

\* ------------------------------------------------------------------------
\* TextEncoder / TextDecoder
\* ------------------------------------------------------------------------

\* The first (j odd) and the second (j even) byte of the character of s that
\* j falls on: EAcute has two bytes, every other character one.
EncodeAt(s, j) ==
    LET c == s[(j + 1) \div 2]
    IN IF j % 2 = 1 THEN (IF c = EAcute THEN LeadByte ELSE c)
       ELSE (IF c = EAcute THEN ContByte ELSE Dropped)

\* encoder.encode(s)
Encode(s) == SelectSeq([j \in 1..2 * Len(s) |-> EncodeAt(s, j)], Kept)

\* What the byte at i of the bytes given to the decoder yields: a lead byte
\* and the continuation byte after it are EAcute (yielded at the lead byte),
\* a lead byte followed by anything else and a continuation byte that
\* follows no lead byte are replaced, a lead byte at the end yields nothing
\* yet, any other byte is its character.
DecodeAt(all, i) ==
    IF all[i] = LeadByte
    THEN IF i = Len(all) THEN Dropped
         ELSE IF all[i + 1] = ContByte THEN EAcute ELSE Replacement
    ELSE IF all[i] = ContByte
    THEN IF i > 1 /\ all[i - 1] = LeadByte THEN Dropped ELSE Replacement
    ELSE all[i]

\* decoder.decode(chunk, { stream: true }): the bytes of an incomplete
\* character stay in the decoder until the next chunk.
DecodeStream(pending, bytes) ==
    LET all == pending \o bytes
    IN [text |-> SelectSeq([i \in 1..Len(all) |-> DecodeAt(all, i)], Kept),
        pending |-> IF all # <<>> /\ all[Len(all)] = LeadByte
                    THEN <<LeadByte>> ELSE <<>>]

\* decoder.decode(chunk): without { stream: true } an incomplete character at
\* the end of the chunk is replaced and the decoder starts the next chunk
\* afresh.
DecodeNoStream(pending, bytes) ==
    LET r == DecodeStream(<<>>, bytes) IN
    [text |-> IF r.pending = <<>> THEN r.text ELSE Append(r.text, Replacement),
     pending |-> <<>>]

\* ------------------------------------------------------------------------
\* JSON.parse / JSON.stringify on the payloads of the protocol: an object of
\* key : value pairs, a value a quoted string or a scalar.
\* ------------------------------------------------------------------------

NoFields == [k \in JsonKeys |-> Absent]

RECURSIVE ClosingQuote(_, _)
ClosingQuote(t, i) ==
    IF i > Len(t) THEN 0 ELSE IF t[i] = Quote THEN i ELSE ClosingQuote(t, i + 1)

\* The length of the value t starts with, 0 when it starts with none.
ValueLen(t) ==
    IF t = <<>> THEN 0
    ELSE IF t[1] = Quote THEN ClosingQuote(t, 2)
    ELSE IF t[1] \in JsonScalars THEN 1
    ELSE 0

RECURSIVE ParsePairs(_, _)
ParsePairs(t, acc) ==
    IF Len(t) < 3 \/ t[1] \notin JsonKeys \/ t[2] # Colon
    THEN [ok |-> FALSE, val |-> NoFields]
    ELSE LET n == ValueLen(SubSeq(t, 3, Len(t))) IN
         IF n = 0 THEN [ok |-> FALSE, val |-> NoFields]
         ELSE LET v == SubSeq(t, 3, 2 + n)
                  rest == SubSeq(t, 3 + n, Len(t))
                  acc2 == [acc EXCEPT ![t[1]] = v]
              IN IF rest = <<>> THEN [ok |-> TRUE, val |-> acc2]
                 ELSE IF rest[1] = Comma THEN ParsePairs(Tail(rest), acc2)
                 ELSE [ok |-> FALSE, val |-> NoFields]

\* ok = FALSE: JSON.parse throws.
JSONParse(t) ==
    IF Len(t) < 2 \/ t[1] # LBrace \/ t[Len(t)] # RBrace
    THEN [ok |-> FALSE, val |-> NoFields]
    ELSE IF Len(t) = 2 THEN [ok |-> TRUE, val |-> NoFields]
    ELSE ParsePairs(SubSeq(t, 2, Len(t) - 1), NoFields)

QuoteStr(s) == <<Quote>> \o s \o <<Quote>>

\* JSON.stringify({ slug, repoName })
StringifySaved(slug, repoName) ==
    <<LBrace, "slug", Colon>> \o QuoteStr(slug)
        \o <<Comma, "repoName", Colon>> \o QuoteStr(repoName) \o <<RBrace>>

\* ------------------------------------------------------------------------
\* storage.ts: slugify, saveDocs
\* ------------------------------------------------------------------------

\* userId.slice(0, 8)
SlugUserIdLen == 8

LowerAlnum == {"a", "b", "c", "d", "e", "f", "g", "h", "i", "j", "k", "l", "m",
               "n", "o", "p", "q", "r", "s", "t", "u", "v", "w", "x", "y", "z",
               "0", "1", "2", "3", "4", "5", "6", "7", "8", "9"}

\* The capital letters and, at the same places, their lower-case forms.
UpperLetters ==
    <<"A", "B", "C", "D", "E", "F", "G", "H", "I", "J", "K", "L", "M",
      "N", "O", "P", "Q", "R", "S", "T", "U", "V", "W", "X", "Y", "Z", "É">>
LowerLetters ==
    <<"a", "b", "c", "d", "e", "f", "g", "h", "i", "j", "k", "l", "m",
      "n", "o", "p", "q", "r", "s", "t", "u", "v", "w", "x", "y", "z", "é">>

\* toLowerCase of one character
ToLower(c) ==
    IF \E i \in 1..Len(UpperLetters) : UpperLetters[i] = c
    THEN LowerLetters[CHOOSE i \in 1..Len(UpperLetters) : UpperLetters[i] = c]
    ELSE c

LowerCase(s) == [i \in 1..Len(s) |-> ToLower(s[i])]

\* .replace(/[^a-z0-9]+/g, "-"): every run of other characters becomes one "-"
RECURSIVE DashRuns(_, _)
DashRuns(s, inRun) ==
    IF s = <<>> THEN <<>>
    ELSE IF Head(s) \in LowerAlnum THEN <<Head(s)>> \o DashRuns(Tail(s), FALSE)
    ELSE IF inRun THEN DashRuns(Tail(s), TRUE)
    ELSE <<"-">> \o DashRuns(Tail(s), TRUE)

\* .replace(/^-|-$/g, ""): one leading and one trailing "-" go
StripDashes(s) ==
    LET a == IF s # <<>> /\ Head(s) = "-" THEN Tail(s) ELSE s
    IN IF a # <<>> /\ a[Len(a)] = "-" THEN SubSeq(a, 1, Len(a) - 1) ELSE a

slugify(name) == StripDashes(DashRuns(LowerCase(name), FALSE))

Take(s, n) == SubSeq(s, 1, IF Len(s) < n THEN Len(s) ELSE n)

SlugOf(uid, repoName) == slugify(repoName) \o <<"-">> \o Take(uid, SlugUserIdLen)

\* An upsert that creates a row whatever the table holds.
UpsertAlwaysCreates(rows, uid, url, repoName, d) ==
    rows \cup {[slug |-> SlugOf(uid, repoName), userId |-> uid, repoUrl |-> url,
                repoName |-> repoName, docs |-> d]}

\* An upsert whose update leaves the docs of the row alone.
UpsertKeepsDocs(rows, uid, url, repoName, d) ==
    IF \E r \in rows : r.slug = SlugOf(uid, repoName)
    THEN rows
    ELSE rows \cup {[slug |-> SlugOf(uid, repoName), userId |-> uid, repoUrl |-> url,
                     repoName |-> repoName, docs |-> d]}

\* prisma.project.upsert({ where: { slug }, update, create }); repoUrl is left
\* alone by an update with an empty repoUrl (repoUrl || undefined).
Upsert(rows, uid, url, repoName, d) ==
    LET slug == SlugOf(uid, repoName)
        old == {r \in rows : r.slug = slug}
    IN IF old = {}
       THEN rows \cup {[slug |-> slug, userId |-> uid, repoUrl |-> url,
                        repoName |-> repoName, docs |-> d]}
       ELSE (rows \ old) \cup
            {[r EXCEPT !.docs = d, !.repoName = repoName,
                       !.repoUrl = IF url = <<>> THEN r.repoUrl ELSE url] : r \in old}

\* ------------------------------------------------------------------------
\* route.ts: the session of one streaming POST
\* ------------------------------------------------------------------------

RECURSIVE LastSegment(_, _)
LastSegment(s, cur) ==
    IF s = <<>> THEN cur
    ELSE IF Head(s) = "/" THEN LastSegment(Tail(s), <<>>)
    ELSE LastSegment(Tail(s), Append(cur, Head(s)))

DotGit == <<".", "g", "i", "t">>

IsPrefix(p, s) == Len(p) <= Len(s) /\ SubSeq(s, 1, Len(p)) = p

\* s.replace(".git", ""): the first occurrence goes
RECURSIVE RemoveFirst(_, _)
RemoveFirst(s, pat) ==
    IF s = <<>> THEN <<>>
    ELSE IF IsPrefix(pat, s) THEN SubSeq(s, Len(pat) + 1, Len(s))
    ELSE <<Head(s)>> \o RemoveFirst(Tail(s), pat)

Unknown == <<"u", "n", "k", "n", "o", "w", "n">>

\* body.repo_url?.split("/").pop()?.replace(".git", "") || "unknown"
RepoNameOf(url) ==
    LET n == RemoveFirst(LastSegment(url, <<>>), DotGit)
    IN IF n = <<>> THEN Unknown ELSE n

\* `event: saved\ndata: ${JSON.stringify({ slug, repoName })}\n\n`
SavedEvent(slug, repoName) ==
    <<EventPrefix, "saved", NL, DataPrefix>> \o StringifySaved(slug, repoName)
        \o <<NL, NL>>

\* ------------------------------------------------------------------------
\* route.ts flush: the scan of the accumulated text
\* ------------------------------------------------------------------------

KindDone == <<"done">>

RECURSIVE ScanFrom(_, _, _)

ScanEnd(i, ev) == [kind |-> "end", idx |-> i, ev |-> ev, docs |-> Absent]

\* The scan goes on with the next line after a `done` data line was handled.
AfterDataLineNoBreak(lines, i, ev) == ScanFrom(lines, i + 1, ev)

\* break: the scan is over once a `done` data line was handled.
AfterDataLine(lines, i, ev) == ScanEnd(i, ev)

\* A scan that takes the data line of any event.
IsAnyKind(ev) == ev # <<>>

\* currentEvent === "done"
IsDoneKind(ev) == ev = KindDone

\* A blank line that resets the tracked kind whatever it is.
AfterBlankLineResets(ev) == <<>>

\* if (currentEvent !== "done") currentEvent = ""
AfterBlankLine(ev) == IF ev # KindDone THEN <<>> ELSE ev

\* The loop from line i with tracked kind ev, up to its end ("end"), a throw
\* of JSON.parse ("throw") or the await of saveDocs ("save").
ScanFrom(lines, i, ev) ==
    IF i > Len(lines) THEN ScanEnd(i, ev)
    ELSE LET line == lines[i] IN
         IF StartsWith(line, EventPrefix)
         THEN ScanFrom(lines, i + 1, Trim(SlicePrefix(line)))
         ELSE IF StartsWith(line, DataPrefix) /\ IsDoneKind(ev)
         THEN LET parsed == JSONParse(Trim(SlicePrefix(line))) IN
              IF ~parsed.ok
              THEN [kind |-> "throw", idx |-> i, ev |-> ev, docs |-> Absent]
              ELSE IF Truthy(parsed.val["docs"])
              THEN [kind |-> "save", idx |-> i, ev |-> ev, docs |-> parsed.val["docs"]]
              ELSE AfterDataLine(lines, i, ev)
         ELSE IF line = <<>>
         THEN ScanFrom(lines, i + 1, AfterBlankLine(ev))
         ELSE ScanFrom(lines, i + 1, ev)

\* ------------------------------------------------------------------------
\* The frames of the wire protocol and the inputs of a run
\* ------------------------------------------------------------------------

Frame(kind, payload) ==
    <<EventPrefix>> \o kind \o <<NL, DataPrefix>> \o payload \o <<NL, NL>>

ProgressFrame == Frame(<<"progress">>, <<LBrace, "progress", Colon, "10", RBrace>>)
DoneAFrame == Frame(KindDone, <<LBrace, "docs", Colon, DocsA, RBrace>>)
\* a `done` frame whose event line ends with a blank
DoneBFrame == Frame(<<"done", SP>>, <<LBrace, "docs", Colon, DocsB, RBrace>>)
DoneNoDocsFrame == Frame(KindDone, <<LBrace, RBrace>>)
DoneBadFrame == Frame(KindDone, <<LBrace>>)
ErrorFrame ==
    Frame(<<"error">>, <<LBrace, "error", Colon, Quote, EAcute, Quote, RBrace>>)
\* `event: done`, a blank line, and only then the data line
DoneGapFrame ==
    <<EventPrefix, "done", NL, NL, DataPrefix, LBrace, "docs", Colon, DocsA, RBrace,
      NL, NL>>

\* a frame of another kind whose payload has docs
PartialFrame == Frame(<<"progress">>, <<LBrace, "docs", Colon, DocsB, RBrace>>)

UpstreamFrames ==
    {ProgressFrame, PartialFrame, DoneAFrame, DoneBFrame, DoneNoDocsFrame,
     DoneBadFrame, ErrorFrame, DoneGapFrame}

SeqsUpTo(S, n) == UNION {[1..k -> S] : k \in 0..n}

UpstreamTexts == {Flatten(fs) : fs \in SeqsUpTo(UpstreamFrames, MaxFrames)}

LiveTexts == {Flatten(fs) : fs \in SeqsUpTo(UpstreamFrames, MaxLiveFrames)}

\* session.userId: <<>> is no user (undefined), which `if (userId)` reads as
\* it reads "".
UserIds == {<<>>, <<"u", "1">>}

\* body.repo_url
RepoUrls == {<<"h", "/", "R", ".", "g", "i", "t">>}

\* ------------------------------------------------------------------------
\* State
\* ------------------------------------------------------------------------

VARIABLES
    \* the request and its session, and what the streaming POST has answered
    \* (status 0: nothing yet)
    userId, repoUrl, postAnswer,
    \* agent.ts generateDocsStream: what the agent sends in all (bytes), how
    \* much of it has gone through transform, the returned ReadableStream
    \* (none | open | failing | closed | errored | cancelled; none: there is
    \* no stream; failing: the body has failed and no read has met it yet),
    \* the deadline timer, the chunks
    \* read and not yet transformed (they follow the bytes transformed; the
    \* first is held by the writable side, the second by the stream's queue)
    wire, relayPos, upState, timerArmed, rawQueue,
    \* whether a reader.read() of the run was rejected, and where the relay
    \* was when the caller cancelled the response (none | piping | saving)
    readError, cancelledIn,
    \* route.ts: the bytes enqueued on the readable side, that side's state
    \* (none | open | closed | errored | cancelled), how often it was closed,
    \* decoder, sseBuffer, the effects of the last transform in their order
    outbound, outState, outCloses, sDecPending, sseBuffer, lastOps,
    \* where the POST is: fetching (generateDocsStream awaits the agent) |
    \* failed (it threw) | piping | saving (flush awaits saveDocs) | returning
    \* (flush has enqueued the saved event and not yet returned) | done |
    \* aborted; the `done` data line of the call in flight and the tracked
    \* kind there, the arguments of that call, every call made, and how each
    \* ended
    phase, scanIdx, scanEvent, saveArgs, saveCalls, saveResults,
    \* the projects table, and whether the upsert of the saveDocs call in
    \* flight has written its row
    db, upserted,
    \* page.tsx handleGenerate: the bytes of the response body and how many
    \* of them reader.read() has returned, decoder, buffer, currentEvent,
    \* currentData
    cWire, cPos, cDecPending, buffer, currentEvent, currentData,
    \* page.tsx DashboardPage: the React state the dispatch sets (null is
    \* <<>>), the calls of refreshHistory, and the frames dispatched so far
    docs, error, progress, progressMessage, currentSlug, currentRepoName,
    generating, refreshes, dispatched,
    \* page.tsx: abortRef.current (null is <<>>), and where handleGenerate
    \* is: at one of its awaits (fetching: fetch, 73; refused: the body of a
    \* response that is not ok, 85; reading: reader.read(), 102; parsing:
    \* res.json(), 150), at an await that abort() has rejected (aborting: the
    \* rejection goes to the catch of the handler; swallowing: to the catch
    \* of 85), or how it returned (closed: the try block ran to its end |
    \* returned: the return of 88 | swallowed: that return after a rejection
    \* swallowed | aborted | failed)
    abortRef, handler,
    \* storage.ts: the saveDocs calls of the storage runs, each with its
    \* arguments, its slug, where it is (pending | written | returned) and
    \* whether deleteProject has removed the row it wrote
    store,
    \* route.ts: the non-streaming POST (refine and generate): the request,
    \* the session, the upstream result, where the handler is and its response
    batch,
    \* page.tsx: the calls of handleGenerate so far and how each earlier one
    \* ended, the React state refining (a call of handleRefine is in
    \* flight), and the projects of the history list whose docs are being
    \* fetched
    gen, ended, refining, loads,
    \* route.ts: a second POST in flight, its closure (request, streams,
    \* decoder, sseBuffer, flush) kept while the first one takes its steps
    peer

relayVars ==
    <<userId, repoUrl, postAnswer, wire, relayPos, upState, timerArmed, rawQueue, readError,
      cancelledIn, outbound, outState, outCloses, sDecPending, sseBuffer, lastOps, phase, scanIdx,
      scanEvent, saveArgs, saveCalls, saveResults, db, upserted>>

clientVars ==
    <<cWire, cPos, cDecPending, buffer, currentEvent, currentData, docs, error,
      progress, progressMessage, currentSlug, currentRepoName, generating,
      refreshes, dispatched, abortRef, handler>>

dashVars == <<gen, ended, refining, loads>>

overlapVars == <<dashVars, peer>>

sideVars == <<store, batch, overlapVars>>

vars == <<relayVars, clientVars, sideVars>>

NoArgs == [userId |-> <<>>, repoUrl |-> <<>>, repoName |-> <<>>, docs |-> Absent]

\* POST has not answered.
NotAnswered == [status |-> 0, error |-> <<>>]

\* new Response(readable, ...) (route.ts 88-94)
StreamResponse == [status |-> 200, error |-> <<>>]

\* The outer catch: NextResponse.json({ error: message }, { status: 500 })
\* (route.ts 112-116)
StreamErrorResponse(message) == [status |-> 500, error |-> message]

\* The streaming POST inside generateDocsStream (route.ts 34, agent.ts
\* 57-69): the deadline timer is armed and the fetch awaited; there is no
\* stream yet.
RelayCalled(texts) ==
    /\ userId \in UserIds
    /\ repoUrl \in RepoUrls
    /\ postAnswer = NotAnswered
    /\ wire \in {Encode(t) : t \in texts}
    /\ relayPos = 0
    /\ upState = "none"
    /\ timerArmed = TRUE
    /\ rawQueue = <<>>
    /\ readError = FALSE
    /\ cancelledIn = "none"
    /\ outbound = <<>>
    /\ outState = "none"
    /\ outCloses = 0
    /\ sDecPending = <<>>
    /\ sseBuffer = <<>>
    /\ lastOps = <<>>
    /\ phase = "fetching"
    /\ scanIdx = 0
    /\ scanEvent = <<>>
    /\ saveArgs = NoArgs
    /\ saveCalls = <<>>
    /\ saveResults = <<>>
    /\ db = {}
    /\ upserted = FALSE

\* The relay right after POST has set up the pipe (route.ts 34-86): the
\* upstream response is open and the deadline timer armed.
RelayInitOn(texts) ==
    /\ userId \in UserIds
    /\ repoUrl \in RepoUrls
    /\ postAnswer = StreamResponse
    /\ wire \in {Encode(t) : t \in texts}
    /\ relayPos = 0
    /\ upState = "open"
    /\ timerArmed = TRUE
    /\ rawQueue = <<>>
    /\ readError = FALSE
    /\ cancelledIn = "none"
    /\ outbound = <<>>
    /\ outState = "open"
    /\ outCloses = 0
    /\ sDecPending = <<>>
    /\ sseBuffer = <<>>
    /\ lastOps = <<>>
    /\ phase = "piping"
    /\ scanIdx = 0
    /\ scanEvent = <<>>
    /\ saveArgs = NoArgs
    /\ saveCalls = <<>>
    /\ saveResults = <<>>
    /\ db = {}
    /\ upserted = FALSE

\* ------------------------------------------------------------------------
\* agent.ts: generateDocsStream up to the return of the stream
\* ------------------------------------------------------------------------

\* res.status of an answer that is not ok, and what res.text() settles to:
\* the text of the body, "" when the body cannot be read.
AgentStatus == <<"503">>
AgentTexts == {<<>>, <<"no">>}

\* generateDocsStream throws before it has a stream: POST sets up no pipe
\* and answers through the outer catch.
SetupThrows(message) ==
    /\ phase' = "failed"
    /\ postAnswer' = StreamErrorResponse(message)
    /\ UNCHANGED <<clientVars, sideVars>>
    /\ UNCHANGED <<userId, repoUrl, wire, relayPos, upState, rawQueue, readError,
                   cancelledIn, outbound, outState, outCloses, sDecPending,
                   sseBuffer, lastOps, scanIdx, scanEvent, saveArgs, saveCalls,
                   saveResults, db, upserted>>

\* The agent answers ok with a body: the stream is returned, POST pipes it
\* into the transform stream and answers with the readable side.
FetchResolves ==
    /\ phase = "fetching"
    /\ upState' = "open"
    /\ outState' = "open"
    /\ phase' = "piping"
    /\ postAnswer' = StreamResponse
    /\ UNCHANGED <<clientVars, sideVars>>
    /\ UNCHANGED <<userId, repoUrl, wire, relayPos, timerArmed, rawQueue,
                   readError, cancelledIn, outbound, outCloses, sDecPending,
                   sseBuffer, lastOps, scanIdx, scanEvent, saveArgs, saveCalls,
                   saveResults, db, upserted>>

\* await fetch(...) rejects (the agent cannot be reached): the await is in
\* no try, nothing clears the timer.
FetchRejects ==
    /\ phase = "fetching"
    /\ SetupThrows(<<"fetch failed">>)
    /\ UNCHANGED timerArmed

\* if (!res.ok): clearTimeout(timeout), then res.text() is awaited: the
\* timer is cleared while the fetch of POST's caller is still unanswered.
AgentNotOk ==
    /\ phase = "fetching"
    /\ timerArmed' = FALSE
    /\ phase' = "refused"
    /\ UNCHANGED <<clientVars, sideVars>>
    /\ UNCHANGED <<userId, repoUrl, postAnswer, wire, relayPos, upState, rawQueue,
                   readError, cancelledIn, outbound, outState, outCloses,
                   sDecPending, sseBuffer, lastOps, scanIdx, scanEvent, saveArgs,
                   saveCalls, saveResults, db, upserted>>

\* await res.text().catch(() => "") settles:
\* throw new Error(`Agent error ${res.status}: ${text}`)
AgentTextRead(text) ==
    /\ phase = "refused"
    /\ SetupThrows(<<"Agent error ">> \o AgentStatus \o <<": ">> \o text)
    /\ UNCHANGED timerArmed

\* if (!res.body): clearTimeout, throw new Error("No response body ...")
NoBody ==
    /\ phase = "fetching"
    /\ timerArmed' = FALSE
    /\ SetupThrows(<<"No response body for SSE stream">>)

\* ------------------------------------------------------------------------
\* agent.ts: the returned stream
\* ------------------------------------------------------------------------

\* How much of the agent's bytes reader.read() has returned.
ReadPos == relayPos + Len(Flatten(rawQueue))

\* new ReadableStream({ pull, cancel }) has the default highWaterMark.
HighWaterMark == 1

\* pull is called while the queue of the returned stream has room: pipeTo
\* has moved the first chunk not yet transformed into the writable side,
\* whose write waits for transform, and up to HighWaterMark chunks wait in
\* the queue behind it.
PullWanted == Len(rawQueue) <= HighWaterMark

\* pull: reader.read() returns the next n bytes, which are enqueued.
Pull(n) ==
    /\ upState = "open"
    /\ outState = "open"
    /\ PullWanted
    /\ ReadPos + n <= Len(wire)
    /\ rawQueue' = Append(rawQueue, SubSeq(wire, ReadPos + 1, ReadPos + n))
    /\ UNCHANGED relayPos
    /\ UNCHANGED <<clientVars, sideVars>>
    /\ UNCHANGED <<readError, cancelledIn>>
    /\ UNCHANGED <<userId, repoUrl, postAnswer, wire, upState, timerArmed, outbound, outState,
                   outCloses, sDecPending, sseBuffer, lastOps, phase, scanIdx,
                   scanEvent, saveArgs, saveCalls, saveResults, db, upserted>>

\* pull: reader.read() returns done: the timer is cleared and the stream
\* closed (it closes for its reader once the queued chunks are read).
PullDone ==
    /\ upState = "open"
    /\ outState = "open"
    /\ PullWanted
    /\ ReadPos = Len(wire)
    /\ timerArmed' = FALSE
    /\ upState' = "closed"
    /\ UNCHANGED <<clientVars, sideVars>>
    /\ UNCHANGED <<readError, cancelledIn>>
    /\ UNCHANGED <<userId, repoUrl, postAnswer, wire, relayPos, rawQueue, outbound, outState,
                   outCloses, sDecPending, sseBuffer, lastOps, phase, scanIdx,
                   scanEvent, saveArgs, saveCalls, saveResults, db, upserted>>

\* A stream whose pull closed it on a failed read.
UpStateOnReadErrorClosing == "closed"

\* pull has no catch: a rejected reader.read() errors the stream.
UpStateOnReadError == "errored"

\* What a failed read does to the relay: the stream errors and its queue
\* goes.  pipeTo lets the write in flight finish: with a chunk in the
\* writable side the pipe runs on until transform has had it; with none it
\* aborts the writable side, which errors the readable side.  flush is not
\* called.
ReadFails ==
    /\ readError' = TRUE
    /\ upState' = UpStateOnReadError
    /\ IF UpStateOnReadError = "errored"
       THEN /\ rawQueue' = IF rawQueue = <<>> THEN <<>> ELSE <<Head(rawQueue)>>
            /\ outState' = IF rawQueue = <<>> THEN "errored" ELSE outState
            /\ phase' = IF rawQueue = <<>> THEN "aborted" ELSE phase
       ELSE UNCHANGED <<rawQueue, outState, phase>>

\* The response of the agent fails.  A reader.read() in flight rejects;
\* with the queue full none is in flight, and the next one will reject.
BodyFails ==
    IF PullWanted
    THEN ReadFails
    ELSE /\ upState' = "failing"
         /\ UNCHANGED <<rawQueue, outState, phase, readError>>

\* reader.read() rejects: the transport to the agent failed.
UpstreamError ==
    /\ upState = "open"
    /\ outState = "open"
    /\ BodyFails
    /\ UNCHANGED <<clientVars, sideVars>>
    /\ UNCHANGED cancelledIn
    /\ UNCHANGED <<userId, repoUrl, postAnswer, wire, relayPos, timerArmed, outbound,
                   outCloses, sDecPending, sseBuffer, lastOps, scanIdx,
                   scanEvent, saveArgs, saveCalls, saveResults, db, upserted>>

\* The deadline timer fires: controller.abort(), which rejects the fetch
\* awaited or a read in flight and is nothing for a response that is over.
Deadline ==
    /\ timerArmed
    /\ timerArmed' = FALSE
    /\ IF phase = "fetching"
       THEN /\ phase' = "failed"
            /\ postAnswer' = StreamErrorResponse(<<"This operation was aborted">>)
            /\ UNCHANGED <<upState, rawQueue, outState, readError>>
       ELSE /\ UNCHANGED postAnswer
            /\ IF upState = "open" /\ outState = "open"
               THEN BodyFails
               ELSE UNCHANGED <<upState, rawQueue, outState, phase, readError>>
    /\ UNCHANGED <<clientVars, sideVars>>
    /\ UNCHANGED cancelledIn
    /\ UNCHANGED <<userId, repoUrl, wire, relayPos, outbound, outCloses,
                   sDecPending, sseBuffer, lastOps, scanIdx, scanEvent, saveArgs,
                   saveCalls, saveResults, db, upserted>>

\* pull on a response that has failed: reader.read() rejects.
PullRejects ==
    /\ upState = "failing"
    /\ outState = "open"
    /\ PullWanted
    /\ ReadFails
    /\ UNCHANGED <<clientVars, sideVars>>
    /\ UNCHANGED cancelledIn
    /\ UNCHANGED <<userId, repoUrl, postAnswer, wire, relayPos, timerArmed, outbound,
                   outCloses, sDecPending, sseBuffer, lastOps, scanIdx,
                   scanEvent, saveArgs, saveCalls, saveResults, db, upserted>>

\* ------------------------------------------------------------------------
\* route.ts: transform
\* ------------------------------------------------------------------------

\* A transform that forwards what it decoded, encoded again.
TransformEnqueueReencoded(out, chunk) ==
    out \o Encode(DecodeNoStream(<<>>, chunk).text)

\* controller.enqueue(chunk)
TransformEnqueue(out, chunk) == out \o chunk

\* A transform that buffers whoever asks.
TransformAccumulateAlways(uid, buf, pending, chunk) ==
    LET d == DecodeStream(pending, chunk)
    IN [buf |-> buf \o d.text, pending |-> d.pending]

\* if (userId) sseBuffer += decoder.decode(chunk, { stream: true })
TransformAccumulate(uid, buf, pending, chunk) ==
    IF Truthy(uid)
    THEN LET d == DecodeStream(pending, chunk)
         IN [buf |-> buf \o d.text, pending |-> d.pending]
    ELSE [buf |-> buf, pending |-> pending]

\* The effects of one transform in the order of its statements.
TransformOps(uid) ==
    IF Truthy(uid) THEN <<"enqueue", "accumulate">> ELSE <<"enqueue">>

\* The source has errored and the write that was in flight is done.
PipeBroken == upState = "errored" /\ rawQueue = <<>>

\* transform(chunk, controller), run when the response is read.
Transform ==
    /\ rawQueue # <<>>
    /\ outState = "open"
    /\ LET chunk == Head(rawQueue)
           acc == TransformAccumulate(userId, sseBuffer, sDecPending, chunk)
       IN /\ outbound' = TransformEnqueue(outbound, chunk)
          /\ sseBuffer' = acc.buf
          /\ sDecPending' = acc.pending
    /\ lastOps' = TransformOps(userId)
    /\ rawQueue' = Tail(rawQueue)
    /\ relayPos' = relayPos + Len(Head(rawQueue))
    /\ UNCHANGED <<clientVars, sideVars>>
    /\ UNCHANGED <<readError, cancelledIn>>
    /\ UNCHANGED <<userId, repoUrl, postAnswer, wire, upState, timerArmed, outState,
                   outCloses, phase, scanIdx, scanEvent, saveArgs, saveCalls,
                   saveResults, db, upserted>>

\* pipeTo after the last write on a source that has errored: it aborts the
\* writable side, which errors the readable side unless the caller has
\* ended it since the enqueue.  flush is not called.
PipeAborts ==
    /\ phase = "piping"
    /\ PipeBroken
    /\ phase' = "aborted"
    /\ outState' = IF outState = "open" THEN "errored" ELSE outState
    /\ UNCHANGED <<clientVars, sideVars>>
    /\ UNCHANGED <<readError, cancelledIn>>
    /\ UNCHANGED <<userId, repoUrl, postAnswer, wire, relayPos, upState, timerArmed,
                   rawQueue, outbound, outCloses, sDecPending, sseBuffer, lastOps,
                   scanIdx, scanEvent, saveArgs, saveCalls, saveResults, db,
                   upserted>>

\* ------------------------------------------------------------------------
\* route.ts: flush
\* ------------------------------------------------------------------------

\* A pipe that closes its destination as soon as the source asked to close.
FlushMayStartEarly == upState = "closed"

\* pipeTo closes the writable side, which calls flush, once the source is
\* closed and every chunk read from it is written.
FlushMayStart == upState = "closed" /\ rawQueue = <<>>

\* The guard the wrong way round.
FlushGuardInverted(uid) == Falsy(uid)

\* if (!userId) return
FlushGuard(uid) == Truthy(uid)

\* No try/catch: a throw in flush errors the readable side.
AfterThrowNoCatch == "errored"

\* catch (e) { console.error(...) }: flush returns normally and the readable
\* side is closed.
AfterThrow == "closed"

\* flush has returned or thrown: the readable side ends, unless the caller
\* ended it before.
Finish(how) ==
    /\ phase' = "done"
    /\ outState' = IF outState = "open" THEN how ELSE outState
    /\ outCloses' = IF outState = "open" /\ how = "closed"
                    THEN outCloses + 1 ELSE outCloses

\* A call of saveDocs that flush does not wait for: flush returns, and the
\* readable side is closed, with the call in flight.
NotAwaitingSave(s) == "closed"

\* await saveDocs(...): flush is suspended and the readable side stays as it
\* is until the call has returned or thrown.
AwaitingSave(s) == s

\* The scan arrived at r: the end of the loop, a throw, or a call of
\* saveDocs, whose await suspends flush.
Continue(r) ==
    IF r.kind = "save"
    THEN /\ phase' = "saving"
         /\ scanIdx' = r.idx
         /\ scanEvent' = r.ev
         /\ saveArgs' = [userId |-> userId, repoUrl |-> repoUrl,
                         repoName |-> RepoNameOf(repoUrl), docs |-> r.docs]
         /\ saveCalls' = Append(saveCalls, saveArgs')
         /\ outState' = AwaitingSave(outState)
         /\ outCloses' = IF outState' = "closed" THEN outCloses + 1 ELSE outCloses
    ELSE /\ Finish(IF r.kind = "throw" THEN AfterThrow ELSE "closed")
         /\ UNCHANGED <<scanIdx, scanEvent, saveArgs, saveCalls>>

FlushStart ==
    /\ phase = "piping"
    /\ outState = "open"
    /\ FlushMayStart
    /\ IF FlushGuard(userId)
       THEN Continue(ScanFrom(SplitLines(sseBuffer), 1, <<>>))
       ELSE /\ Finish("closed")
            /\ UNCHANGED <<scanIdx, scanEvent, saveArgs, saveCalls>>
    /\ UNCHANGED <<clientVars, sideVars>>
    /\ UNCHANGED <<readError, cancelledIn>>
    /\ UNCHANGED <<userId, repoUrl, postAnswer, wire, relayPos, upState, timerArmed, rawQueue,
                   outbound, sDecPending, sseBuffer, lastOps, saveResults, db, upserted>>

\* saveDocs, while flush waits for it: prisma.project.upsert writes the row
\* (storage.ts 21-38).
UpsertWrites ==
    /\ phase = "saving"
    /\ ~upserted
    /\ upserted' = TRUE
    /\ db' = Upsert(db, saveArgs.userId, saveArgs.repoUrl, saveArgs.repoName,
                    saveArgs.docs)
    /\ UNCHANGED <<clientVars, sideVars>>
    /\ UNCHANGED <<readError, cancelledIn>>
    /\ UNCHANGED <<userId, repoUrl, postAnswer, wire, relayPos, upState, timerArmed, rawQueue,
                   outbound, outState, outCloses, sDecPending, sseBuffer, lastOps,
                   phase, scanIdx, scanEvent, saveArgs, saveCalls, saveResults>>

\* flush has enqueued the saved event and left the loop; it has not yet
\* returned, and the readable side is still as it was.
Returning ==
    /\ phase' = "returning"
    /\ UNCHANGED <<outState, outCloses>>

\* saveDocs returns { slug } in a later turn: flush resumes, the saved event
\* is enqueued (which throws on a readable side the caller has cancelled)
\* and the loop is left.
SaveReturns ==
    /\ phase = "saving"
    /\ upserted
    /\ upserted' = FALSE
    /\ UNCHANGED db
    /\ saveResults' = Append(saveResults, "ok")
    /\ IF outState = "open"
       THEN /\ outbound' =
                 outbound \o Encode(SavedEvent(SlugOf(saveArgs.userId, saveArgs.repoName),
                                               saveArgs.repoName))
            /\ \E r \in {AfterDataLine(SplitLines(sseBuffer), scanIdx, scanEvent)} :
                  IF r.kind = "end"
                  THEN /\ Returning
                       /\ UNCHANGED <<scanIdx, scanEvent, saveArgs, saveCalls>>
                  ELSE Continue(r)
       ELSE /\ UNCHANGED <<outbound, scanIdx, scanEvent, saveArgs, saveCalls>>
            /\ Finish(AfterThrow)
    /\ UNCHANGED <<clientVars, sideVars>>
    /\ UNCHANGED <<readError, cancelledIn>>
    /\ UNCHANGED <<userId, repoUrl, postAnswer, wire, relayPos, upState, timerArmed, rawQueue,
                   sDecPending, sseBuffer, lastOps>>

\* flush has returned after the enqueue of the saved event: the readable
\* side is closed, unless the caller has ended it since the enqueue.
FlushReturns ==
    /\ phase = "returning"
    /\ Finish("closed")
    /\ UNCHANGED <<clientVars, sideVars>>
    /\ UNCHANGED <<readError, cancelledIn>>
    /\ UNCHANGED <<userId, repoUrl, postAnswer, wire, relayPos, upState, timerArmed,
                   rawQueue, outbound, sDecPending, sseBuffer, lastOps, scanIdx,
                   scanEvent, saveArgs, saveCalls, saveResults, db, upserted>>

\* saveDocs rejects: the upsert failed and wrote no row.
SaveRaises ==
    /\ phase = "saving"
    /\ ~upserted
    /\ saveResults' = Append(saveResults, "raised")
    /\ Finish(AfterThrow)
    /\ UNCHANGED <<clientVars, sideVars>>
    /\ UNCHANGED <<readError, cancelledIn>>
    /\ UNCHANGED <<userId, repoUrl, postAnswer, wire, relayPos, upState, timerArmed, rawQueue,
                   outbound, sDecPending, sseBuffer, lastOps, scanIdx, scanEvent,
                   saveArgs, saveCalls, db, upserted>>

\* The caller cancels the response body.  While the pipe runs, pipeTo
\* cancels the source: cancel() clears the timer and cancels the reader
\* (it is not called on a stream that has closed or errored), and flush is
\* not called.  During flush only the readable side ends.
Cancel ==
    /\ outState = "open"
    /\ phase \in {"piping", "saving", "returning"}
    /\ outState' = "cancelled"
    /\ cancelledIn' = IF phase = "piping" THEN "piping" ELSE "saving"
    /\ IF phase = "piping"
       THEN /\ phase' = "aborted"
            /\ rawQueue' = <<>>
            /\ upState' = IF upState \in {"open", "failing"} THEN "cancelled" ELSE upState
            /\ timerArmed' = IF upState \in {"open", "failing"} THEN FALSE ELSE timerArmed
       ELSE UNCHANGED <<phase, rawQueue, upState, timerArmed>>
    /\ UNCHANGED <<clientVars, sideVars>>
    /\ UNCHANGED readError
    /\ UNCHANGED <<userId, repoUrl, postAnswer, wire, relayPos, outbound, outCloses,
                   sDecPending, sseBuffer, lastOps, scanIdx, scanEvent, saveArgs,
                   saveCalls, saveResults, db, upserted>>

RelayNext ==
    \/ FetchResolves
    \/ FetchRejects
    \/ AgentNotOk
    \/ \E text \in AgentTexts : AgentTextRead(text)
    \/ NoBody
    \/ \E n \in 1..Len(wire) : Pull(n)
    \/ PullDone
    \/ UpstreamError
    \/ Deadline
    \/ PullRejects
    \/ Transform
    \/ PipeAborts
    \/ FlushStart
    \/ UpsertWrites
    \/ SaveReturns
    \/ FlushReturns
    \/ SaveRaises
    \/ Cancel

\* ------------------------------------------------------------------------
\* page.tsx handleGenerate: the SSE read loop
\* ------------------------------------------------------------------------

Str(word) == QuoteStr(<<word>>)

\* What the line loop reads and writes: the two loop variables, the React
\* state, and the frames dispatched.
ClientSt ==
    [ev |-> currentEvent, data |-> currentData, docs |-> docs, error |-> error,
     progress |-> progress, msg |-> progressMessage, slug |-> currentSlug,
     repo |-> currentRepoName, refreshes |-> refreshes, dispatched |-> dispatched]

\* handleGenerate up to the read loop (page.tsx 63-67, 97-99).
ClientSt0 ==
    [ev |-> <<>>, data |-> <<>>, docs |-> Absent, error |-> Absent,
     progress |-> <<"0">>, msg |-> Str("Starting..."), slug |-> Absent,
     repo |-> Absent, refreshes |-> 0, dispatched |-> <<>>]

Or(v, default) == IF Truthy(v) THEN v ELSE default

\* A dispatch that knows no saved frame.
DispatchWithoutSaved(st, p) ==
    IF st.ev = <<"progress">>
    THEN [st EXCEPT !.progress = Or(p["progress"], <<"0">>),
                    !.msg = Or(p["message"], <<Quote, Quote>>)]
    ELSE IF st.ev = KindDone
    THEN IF Truthy(p["docs"])
         THEN [st EXCEPT !.docs = p["docs"], !.progress = <<"100">>,
                         !.msg = Str("Done!"), !.refreshes = @ + 1]
         ELSE [st EXCEPT !.error = Str("No docs returned")]
    ELSE IF st.ev = <<"error">>
    THEN [st EXCEPT !.error = Or(p["error"], Str("Generation failed"))]
    ELSE st

\* The dispatch by kind of a parsed payload (page.tsx 120-138).
Dispatch(st, p) ==
    IF st.ev = <<"progress">>
    THEN [st EXCEPT !.progress = Or(p["progress"], <<"0">>),
                    !.msg = Or(p["message"], <<Quote, Quote>>)]
    ELSE IF st.ev = KindDone
    THEN IF Truthy(p["docs"])
         THEN [st EXCEPT !.docs = p["docs"], !.progress = <<"100">>,
                         !.msg = Str("Done!"), !.refreshes = @ + 1]
         ELSE [st EXCEPT !.error = Str("No docs returned")]
    ELSE IF st.ev = <<"saved">>
    THEN [st EXCEPT !.slug = IF Truthy(p["slug"]) THEN p["slug"] ELSE @,
                    !.repo = IF Truthy(p["repoName"]) THEN p["repoName"] ELSE @]
    ELSE IF st.ev = <<"error">>
    THEN [st EXCEPT !.error = Or(p["error"], Str("Generation failed"))]
    ELSE st

\* A catch that reports the frame it could not parse.
OnMalformedFails(st) == [st EXCEPT !.error = Str("Generation failed")]

\* catch { /* skip malformed JSON */ }
OnMalformed(st) == st

\* An empty line: the end of an event block (page.tsx 114-145).
EndOfBlock(st) ==
    LET parsed == JSONParse(st.data)
        done == IF st.ev # <<>> /\ st.data # <<>>
                THEN IF parsed.ok
                     THEN [Dispatch(st, parsed.val) EXCEPT
                             !.dispatched = Append(@, [kind |-> st.ev, payload |-> st.data])]
                     ELSE OnMalformed(st)
                ELSE st
    IN [done EXCEPT !.ev = <<>>, !.data = <<>>]

\* One line of the loop (page.tsx 110-145).
ProcessLine(st, line) ==
    IF StartsWith(line, EventPrefix) THEN [st EXCEPT !.ev = Trim(SlicePrefix(line))]
    ELSE IF StartsWith(line, DataPrefix) THEN [st EXCEPT !.data = Trim(SlicePrefix(line))]
    ELSE IF line = <<>> THEN EndOfBlock(st)
    ELSE st

RECURSIVE ProcessLines(_, _)
ProcessLines(st, lines) ==
    IF lines = <<>> THEN st ELSE ProcessLines(ProcessLine(st, Head(lines)), Tail(lines))

\* A loop that keeps nothing of the chunk for the next read.
KeepNothing(lines) == <<>>

\* buffer = lines.pop() || "": the incomplete last line stays in the buffer.
KeepIncomplete(lines) == lines[Len(lines)]

\* decoder.decode(value, { stream: true })
ClientDecode(pending, bytes) == DecodeStream(pending, bytes)

\* One turn of the read loop on a chunk (page.tsx 105-146).
ClientChunk(st, pending, buf, bytes) ==
    LET d == ClientDecode(pending, bytes)
        lines == SplitLines(buf \o d.text)
    IN [st |-> ProcessLines(st, SubSeq(lines, 1, Len(lines) - 1)),
        pending |-> d.pending,
        buffer |-> KeepIncomplete(lines)]

\* The frames the dashboard reads: those of upstream and the relay's saved
\* frame.
SavedFrame == SavedEvent(<<"r", "-", "u", "1">>, <<"R">>)

ClientFrames ==
    {ProgressFrame, DoneAFrame, DoneNoDocsFrame, DoneBadFrame, ErrorFrame, SavedFrame}

ClientTexts == {Flatten(fs) : fs \in SeqsUpTo(ClientFrames, MaxClientFrames)}

\* No relay: the dashboard reads a response body that is given.
RelayIdle ==
    /\ userId = <<>>
    /\ repoUrl = <<>>
    /\ postAnswer = NotAnswered
    /\ wire = <<>>
    /\ relayPos = 0
    /\ upState = "closed"
    /\ timerArmed = FALSE
    /\ rawQueue = <<>>
    /\ readError = FALSE
    /\ cancelledIn = "none"
    /\ outbound = <<>>
    /\ outState = "closed"
    /\ outCloses = 0
    /\ sDecPending = <<>>
    /\ sseBuffer = <<>>
    /\ lastOps = <<>>
    /\ phase = "done"
    /\ scanIdx = 0
    /\ scanEvent = <<>>
    /\ saveArgs = NoArgs
    /\ saveCalls = <<>>
    /\ saveResults = <<>>
    /\ db = {}
    /\ upserted = FALSE

\* No storage run and no non-streaming POST.
NoBatch == [pc |-> "none"]

\* No second POST.
NoPeer == [pc |-> "none"]

\* abortRef.current: null, or the AbortController that the g-th call of
\* handleGenerate has made (page.tsx 69-70).
NoController == <<>>
Controller(g) == <<g>>

\* One generation on the dashboard, nothing else asked of it, one POST.
NoOverlap ==
    /\ gen = 1
    /\ ended = <<>>
    /\ refining = FALSE
    /\ loads = <<>>
    /\ peer = NoPeer

SideIdle ==
    /\ store = <<>>
    /\ batch = NoBatch
    /\ NoOverlap

\* The dashboard right before the first reader.read() of a generation.
ClientStart ==
    /\ cPos = 0
    /\ cDecPending = <<>>
    /\ buffer = <<>>
    /\ currentEvent = ClientSt0.ev
    /\ currentData = ClientSt0.data
    /\ docs = ClientSt0.docs
    /\ error = ClientSt0.error
    /\ progress = ClientSt0.progress
    /\ progressMessage = ClientSt0.msg
    /\ currentSlug = ClientSt0.slug
    /\ currentRepoName = ClientSt0.repo
    /\ generating = TRUE
    /\ refreshes = ClientSt0.refreshes
    /\ dispatched = ClientSt0.dispatched
    /\ abortRef = Controller(1)
    /\ handler = "reading"

\* No dashboard: nobody decodes the response.
ClientIdle ==
    /\ cWire = <<>>
    /\ ClientStart

ClientInit ==
    /\ RelayIdle
    /\ SideIdle
    /\ cWire \in {Encode(t) : t \in ClientTexts}
    /\ ClientStart

\* reader.read() returns the next n bytes of the body, and the loop body runs
\* on them.
ClientReadFrom(body, n) ==
    /\ handler = "reading"
    /\ cPos + n <= Len(body)
    /\ \E r \in {ClientChunk(ClientSt, cDecPending, buffer,
                            SubSeq(body, cPos + 1, cPos + n))} :
          /\ cDecPending' = r.pending
          /\ buffer' = r.buffer
          /\ currentEvent' = r.st.ev
          /\ currentData' = r.st.data
          /\ docs' = r.st.docs
          /\ error' = r.st.error
          /\ progress' = r.st.progress
          /\ progressMessage' = r.st.msg
          /\ currentSlug' = r.st.slug
          /\ currentRepoName' = r.st.repo
          /\ refreshes' = r.st.refreshes
          /\ dispatched' = r.st.dispatched
    /\ cPos' = cPos + n
    /\ UNCHANGED <<cWire, generating, abortRef, handler>>

ClientRead(n) ==
    /\ ClientReadFrom(cWire, n)
    /\ UNCHANGED <<relayVars, sideVars>>

\* A finally that leaves the controller in the ref.
AbortRefAfterFinallyKept(ref) == ref

\* finally { abortRef.current = null } (page.tsx 169)
AbortRefAfterFinally(ref) == NoController

\* finally { setGenerating(false) } (page.tsx 170)
GeneratingAfterFinally(g) == FALSE

\* reader.read() returns done: the loop is left and finally runs
\* (page.tsx 103, 168-171).
\* A handler for which a stream that ends without docs is a failure.
LoopLeftNoDocsIsError ==
    /\ handler = "reading"
    /\ handler' = "closed"
    /\ abortRef' = AbortRefAfterFinally(abortRef)
    /\ generating' = GeneratingAfterFinally(generating)
    /\ error' = IF docs = Absent THEN Str("No docs returned") ELSE error
    /\ UNCHANGED <<cWire, cPos, cDecPending, buffer, currentEvent, currentData,
                   docs, progress, progressMessage, currentSlug,
                   currentRepoName, refreshes, dispatched>>

\* The loop is left on done and finally runs (page.tsx 103, 168-171).
LoopLeft ==
    /\ handler = "reading"
    /\ handler' = "closed"
    /\ abortRef' = AbortRefAfterFinally(abortRef)
    /\ generating' = GeneratingAfterFinally(generating)
    /\ UNCHANGED <<cWire, cPos, cDecPending, buffer, currentEvent, currentData,
                   docs, error, progress, progressMessage, currentSlug,
                   currentRepoName, refreshes, dispatched>>

ClientReadDone ==
    /\ cPos = Len(cWire)
    /\ LoopLeft
    /\ UNCHANGED <<relayVars, sideVars>>

\* A catch that takes every exception for a failure.
IsNeverAbortError(e) == FALSE

\* e instanceof DOMException && e.name === "AbortError"
IsAbortError(e) == e = "AbortError"

\* catch (e): a cancellation sets no error, anything else its message
\* (page.tsx 162-167).
CaughtError(e, err) == IF IsAbortError(e) THEN err ELSE Str(e)

\* catch and finally of handleGenerate on an exception e (page.tsx 162-171).
Unwind(e, how) ==
    /\ error' = CaughtError(e, error)
    /\ handler' = how
    /\ abortRef' = AbortRefAfterFinally(abortRef)
    /\ generating' = GeneratingAfterFinally(generating)
    /\ UNCHANGED <<cWire, cPos, cDecPending, buffer, currentEvent, currentData,
                   docs, progress, progressMessage, currentSlug, currentRepoName,
                   refreshes, dispatched>>

\* A cancel that keeps the controller in the ref.
AbortRefAfterCancelKept(ref) == ref

\* abortRef.current = null
AbortRefAfterCancel(ref) == NoController

\* abort() rejects what the handler awaits: the fetch, the read, or the
\* res.json() of 150, whose rejection the catch of the handler gets, or the
\* res.json() of 85, whose rejection its own catch swallows.
AfterAbort(h) ==
    IF h \in {"fetching", "reading", "parsing"} THEN "aborting"
    ELSE IF h = "refused" THEN "swallowing"
    ELSE h

\* handleCancel (page.tsx 34-42); the button calls it while generating
\* (page.tsx 292).
HandleCancel ==
    /\ generating
    /\ IF abortRef # NoController
       THEN /\ abortRef' = AbortRefAfterCancel(abortRef)
            /\ handler' = AfterAbort(handler)
       ELSE UNCHANGED <<abortRef, handler>>
    /\ generating' = FALSE
    /\ progress' = <<"0">>
    /\ progressMessage' = <<Quote, Quote>>
    /\ UNCHANGED <<cWire, cPos, cDecPending, buffer, currentEvent, currentData,
                   docs, error, currentSlug, currentRepoName, refreshes, dispatched>>

\* The await rejected by abort() is caught: not an error; finally runs.
AbortCaught ==
    /\ handler = "aborting"
    /\ Unwind("AbortError", "aborted")

ClientCancel ==
    /\ HandleCancel
    /\ UNCHANGED <<relayVars, sideVars>>

ClientAbortCaught ==
    /\ AbortCaught
    /\ UNCHANGED <<relayVars, sideVars>>

ClientNext ==
    \/ \E n \in 1..Len(cWire) : ClientRead(n)
    \/ ClientReadDone
    \/ ClientCancel
    \/ ClientAbortCaught

\* ------------------------------------------------------------------------
\* page.tsx: handleGenerate from the click to its return, handleRefine and
\* the history list
\* ------------------------------------------------------------------------

\* The bodies of the SSE responses: docs persisted, docs not persisted, no
\* docs, and an error frame before the last frame.
DashTexts ==
    {DoneAFrame \o SavedFrame, DoneAFrame, ProgressFrame, ErrorFrame \o ProgressFrame}

\* A JSON body with an error, an empty object, and a body that is no JSON.
ErrorBody == <<LBrace, "error", Colon, Quote, EAcute, Quote, RBrace>>
EmptyBody == <<LBrace, RBrace>>
NoJsonBody == <<"x">>

\* The bodies of a response that is not ok.
NotOkTexts == {ErrorBody, EmptyBody, NoJsonBody}

\* JSON bodies with docs, persisted or not.
DocsBody == <<LBrace, "docs", Colon, DocsB, RBrace>>
DocsSlugBody ==
    <<LBrace, "docs", Colon, DocsB, Comma, "slug", Colon, Quote, "j", Quote, RBrace>>

\* The bodies of an ok response that is no event stream, of the answer to a
\* refine, and of the answer to GET /api/projects/<slug>.
JsonTexts == {ErrorBody, DocsBody, DocsSlugBody, EmptyBody, NoJsonBody}
RefineTexts == {DocsBody, DocsSlugBody, EmptyBody, NoJsonBody}
HistoryTexts == {DocsBody, EmptyBody, NoJsonBody}

\* The projects of the history list.
HistoryProjects ==
    {[slug |-> QuoteStr(<<"h", "-", "u", "1">>), repoName |-> Str("H")]}

\* selectedRepo.name
SelectedRepoName == Str("R")

\* res.status of a response that is not ok.
NotOkStatus == "500"

\* `Server error ${res.status}`
ServerError(status) == QuoteStr(<<"Server error ", status>>)

\* res.json(): the body decoded and parsed; ok = FALSE: it rejects.
ResJson(bytes) == JSONParse(DecodeNoStream(<<>>, bytes).text)

\* handleGenerate sets neither currentSlug nor currentRepoName
\* (page.tsx 63-67).
SlugOnGenerate(slug) == slug

\* The awaits of handleGenerate, and those of them that abort() has
\* rejected.
InFlight == {"fetching", "refused", "reading", "parsing"}
Rejected == {"aborting", "swallowing"}

\* handleGenerate up to await fetch (page.tsx 61-82), with a repository
\* selected.  The button calls it while generating is false (page.tsx 292).
\* The continuation of an await that abort() has rejected runs in the
\* microtask checkpoint of the click that called handleCancel, before the
\* task of any later click.
HandleGenerate ==
    /\ ~generating
    /\ handler \notin Rejected
    /\ gen < MaxGenerations
    /\ gen' = gen + 1
    /\ ended' = Append(ended, handler)
    /\ generating' = TRUE
    /\ docs' = Absent
    /\ error' = Absent
    /\ progress' = <<"0">>
    /\ progressMessage' = Str("Starting...")
    /\ currentSlug' = SlugOnGenerate(currentSlug)
    /\ currentRepoName' = SlugOnGenerate(currentRepoName)
    /\ abortRef' = Controller(gen + 1)
    /\ handler' = "fetching"
    /\ cWire' = <<>>
    /\ cPos' = 0
    /\ cDecPending' = <<>>
    /\ buffer' = <<>>
    /\ currentEvent' = <<>>
    /\ currentData' = <<>>
    /\ dispatched' = <<>>
    /\ UNCHANGED refreshes

DashGenerate ==
    /\ HandleGenerate
    /\ UNCHANGED <<relayVars, store, batch, refining, loads, peer>>

\* await fetch(...) resolves with a response of the given body, and the
\* handler goes to the await of its branch: res.json() of a response that
\* is not ok (page.tsx 84-85), the read loop of an event stream (93-102),
\* res.json() of anything else (148-150).
Responds(to, body) ==
    /\ handler = "fetching"
    /\ handler' = to
    /\ cWire' = body
    /\ UNCHANGED <<cPos, cDecPending, buffer, currentEvent, currentData, docs,
                   error, progress, progressMessage, currentSlug,
                   currentRepoName, generating, refreshes, dispatched, abortRef>>
    /\ UNCHANGED <<relayVars, sideVars>>

DashResponds ==
    \/ \E t \in NotOkTexts : Responds("refused", Encode(t))
    \/ \E t \in DashTexts : Responds("reading", Encode(t))
    \/ \E t \in JsonTexts : Responds("parsing", Encode(t))

\* await fetch(...) rejects: the catch sets its message, finally runs
\* (page.tsx 162-171).
DashFetchRejects ==
    /\ handler = "fetching"
    /\ Unwind("Failed to fetch", "failed")
    /\ UNCHANGED <<relayVars, sideVars>>

\* res.json().catch(() => ({})) of a response that is not ok settles, to
\* {} when the body is no JSON or abort() has rejected the read of it:
\* setError, setGenerating(false), return, and finally runs
\* (page.tsx 85-88, 168-171).
NotOkReturns ==
    /\ handler \in {"refused", "swallowing"}
    /\ LET r == ResJson(cWire)
           data == IF handler = "refused" /\ r.ok THEN r.val ELSE NoFields
       IN error' = Or(data["error"], ServerError(NotOkStatus))
    /\ handler' = IF handler = "refused" THEN "returned" ELSE "swallowed"
    /\ abortRef' = AbortRefAfterFinally(abortRef)
    /\ generating' = GeneratingAfterFinally(generating)
    /\ UNCHANGED <<cWire, cPos, cDecPending, buffer, currentEvent, currentData,
                   docs, progress, progressMessage, currentSlug, currentRepoName,
                   refreshes, dispatched>>
    /\ UNCHANGED <<relayVars, sideVars>>

\* await res.json() of an ok response that is no event stream settles
\* (page.tsx 148-161); a body that is no JSON goes to the catch.
JsonReturns ==
    /\ handler = "parsing"
    /\ LET r == ResJson(cWire)
           hasError == Truthy(r.val["error"])
           hasDocs == ~hasError /\ Truthy(r.val["docs"])
       IN IF ~r.ok
          THEN Unwind("Unexpected token", "failed")
          ELSE /\ error' = IF hasError THEN r.val["error"]
                           ELSE IF hasDocs THEN error
                           ELSE Str("No docs returned")
               /\ docs' = IF hasDocs THEN r.val["docs"] ELSE docs
               /\ currentSlug' = IF hasDocs /\ Truthy(r.val["slug"])
                                 THEN r.val["slug"] ELSE currentSlug
               /\ currentRepoName' = IF hasDocs THEN SelectedRepoName
                                     ELSE currentRepoName
               /\ refreshes' = IF hasDocs THEN refreshes + 1 ELSE refreshes
               /\ handler' = "closed"
               /\ abortRef' = AbortRefAfterFinally(abortRef)
               /\ generating' = GeneratingAfterFinally(generating)
               /\ UNCHANGED <<cWire, cPos, cDecPending, buffer, currentEvent,
                              currentData, progress, progressMessage, dispatched>>
    /\ UNCHANGED <<relayVars, sideVars>>

\* handleRefine up to await fetch (page.tsx 174-179).  PromptBar calls it
\* with neither refining nor generating and with docs (PromptBar.tsx 17,
\* page.tsx 320); the repository selected gives repoName.
HandleRefine ==
    /\ ~refining
    /\ ~generating
    /\ Truthy(docs)
    /\ refreshes < MaxRefreshes
    /\ refining' = TRUE
    /\ UNCHANGED <<relayVars, clientVars, store, batch, gen, ended, loads, peer>>

\* The rest of handleRefine on an answer of the given body
\* (page.tsx 189-200): a body that is no JSON goes to its catch.
RefineReturns(body) ==
    /\ refining
    /\ refining' = FALSE
    /\ LET r == ResJson(body)
           hasDocs == r.ok /\ Truthy(r.val["docs"])
       IN /\ docs' = IF hasDocs THEN r.val["docs"] ELSE docs
          /\ currentSlug' = IF hasDocs /\ Truthy(r.val["slug"])
                            THEN r.val["slug"] ELSE currentSlug
          /\ refreshes' = IF hasDocs THEN refreshes + 1 ELSE refreshes
    /\ UNCHANGED <<cWire, cPos, cDecPending, buffer, currentEvent, currentData,
                   error, progress, progressMessage, currentRepoName,
                   generating, dispatched, abortRef, handler>>
    /\ UNCHANGED <<relayVars, store, batch, gen, ended, loads, peer>>

\* A click on a project of the history list: its docs are fetched
\* (page.tsx 239-241).
HistoryClick(project) ==
    /\ Len(loads) < MaxLoads
    /\ loads' = Append(loads, project)
    /\ UNCHANGED <<relayVars, clientVars, store, batch, gen, ended, refining, peer>>

\* The fetch of the i-th click is answered with the given body
\* (page.tsx 242-250): a body that is no JSON goes to .catch(() => {}).
HistoryLoaded(i, body) ==
    /\ i \in 1..Len(loads)
    /\ loads' = SubSeq(loads, 1, i - 1) \o SubSeq(loads, i + 1, Len(loads))
    /\ LET r == ResJson(body)
           hasDocs == r.ok /\ Truthy(r.val["docs"])
       IN /\ docs' = IF hasDocs THEN r.val["docs"] ELSE docs
          /\ currentSlug' = IF hasDocs THEN loads[i].slug ELSE currentSlug
          /\ currentRepoName' = IF hasDocs THEN loads[i].repoName
                                ELSE currentRepoName
    /\ UNCHANGED <<cWire, cPos, cDecPending, buffer, currentEvent, currentData,
                   error, progress, progressMessage, generating, refreshes,
                   dispatched, abortRef, handler>>
    /\ UNCHANGED <<relayVars, store, batch, gen, ended, refining, peer>>

\* The dashboard after the first click on Generate.
DashInit ==
    /\ RelayIdle
    /\ SideIdle
    /\ cWire = <<>>
    /\ cPos = 0
    /\ cDecPending = <<>>
    /\ buffer = <<>>
    /\ currentEvent = ClientSt0.ev
    /\ currentData = ClientSt0.data
    /\ docs = ClientSt0.docs
    /\ error = ClientSt0.error
    /\ progress = ClientSt0.progress
    /\ progressMessage = ClientSt0.msg
    /\ currentSlug = ClientSt0.slug
    /\ currentRepoName = ClientSt0.repo
    /\ generating = TRUE
    /\ refreshes = ClientSt0.refreshes
    /\ dispatched = ClientSt0.dispatched
    /\ abortRef = Controller(1)
    /\ handler = "fetching"

DashNext ==
    \/ DashGenerate
    \/ DashResponds
    \/ DashFetchRejects
    \/ NotOkReturns
    \/ JsonReturns
    \/ \E n \in 1..Len(cWire) : ClientRead(n)
    \/ ClientReadDone
    \/ ClientCancel
    \/ ClientAbortCaught
    \/ HandleRefine
    \/ \E t \in RefineTexts : RefineReturns(Encode(t))
    \/ \E project \in HistoryProjects : HistoryClick(project)
    \/ \E i \in 1..MaxLoads, t \in HistoryTexts : HistoryLoaded(i, Encode(t))

\* ------------------------------------------------------------------------
\* storage.ts: saveDocs calls, one after another or in flight together
\* ------------------------------------------------------------------------

\* user.id of two users whose first eight characters are the same, and of a
\* third.
UserA == <<"c", "l", "h", "3", "a", "m", "8", "h", "x">>
UserB == <<"c", "l", "h", "3", "a", "m", "8", "h", "y">>
StoreUserIds == {<<"u", "1">>, UserA, UserB}

StoreRepoNames == {<<"R">>, <<"A", "-">>}
StoreRepoUrls == {<<>>, <<"h", "/", "R", ".", "g", "i", "t">>}
StoreDocs == {<<DocsA>>, <<DocsB>>}

\* The calls whose upsert has run.
Written == {i \in 1..Len(store) : store[i].pc \in {"written", "returned"}}

\* saveDocs(userId, repoUrl, repoName, docs) up to its await: the slug is
\* made and the upsert issued (storage.ts 11-21).
SaveDocsCall(uid, url, name, d) ==
    /\ Len(store) < MaxSaveCalls
    /\ store' = Append(store, [userId |-> uid, repoUrl |-> url, repoName |-> name,
                               docs |-> d, slug |-> SlugOf(uid, name),
                               pc |-> "pending", order |-> 0, erased |-> FALSE])
    /\ UNCHANGED <<relayVars, clientVars, batch, overlapVars>>

\* The database runs the upsert of call i, a single statement
\* (storage.ts 21-38); order is its place among the upserts run.
UpsertRuns(i) ==
    /\ store[i].pc = "pending"
    /\ db' = Upsert(db, store[i].userId, store[i].repoUrl, store[i].repoName,
                    store[i].docs)
    /\ store' = [store EXCEPT ![i].pc = "written",
                              ![i].order = Cardinality(Written) + 1]
    /\ UNCHANGED <<userId, repoUrl, postAnswer, wire, relayPos, upState, timerArmed, rawQueue,
                   readError, cancelledIn, outbound, outState, outCloses,
                   sDecPending, sseBuffer, lastOps, phase, scanIdx, scanEvent,
                   saveArgs, saveCalls, saveResults, upserted>>
    /\ UNCHANGED <<clientVars, batch, overlapVars>>

\* return { slug } (storage.ts 40)
SaveDocsReturns(i) ==
    /\ store[i].pc = "written"
    /\ store' = [store EXCEPT ![i].pc = "returned"]
    /\ UNCHANGED <<relayVars, clientVars, batch, overlapVars>>

\* The repoName saveDocs is called with: body.repo_name on refine, derived
\* from body.repo_url on generate (route.ts 22, 103-104).
BatchRepoName(b) ==
    IF b.action = "refine" THEN b.repo_name ELSE RepoNameOf(b.repo_url)

\* The rows deleteMany({ where: { slug, userId } }) removes.
Matching(slug, uid) == {r \in db : r.slug = slug /\ r.userId = uid}

\* deleteProject(slug, userId) (storage.ts 69-72): the rows of that slug and
\* that user go; the calls that wrote them are marked, and so is a
\* non-streaming POST that wrote one.
DeleteProject(slug, uid) ==
    /\ db' = db \ Matching(slug, uid)
    /\ store' = [i \in 1..Len(store) |->
                   IF Matching(slug, uid) # {} /\ i \in Written /\ store[i].slug = slug
                   THEN [store[i] EXCEPT !.erased = TRUE]
                   ELSE store[i]]
    /\ batch' = IF /\ Matching(slug, uid) # {}
                   /\ batch.pc \in {"saving", "responded"}
                   /\ slug = SlugOf(batch.userId, BatchRepoName(batch))
                THEN [batch EXCEPT !.erased = TRUE]
                ELSE batch
    /\ UNCHANGED <<userId, repoUrl, postAnswer, wire, relayPos, upState, timerArmed, rawQueue,
                   readError, cancelledIn, outbound, outState, outCloses,
                   sDecPending, sseBuffer, lastOps, phase, scanIdx, scanEvent,
                   saveArgs, saveCalls, saveResults, upserted>>
    /\ UNCHANGED <<clientVars, overlapVars>>

\* The slugs there are to delete.
StoreSlugs == {SlugOf(uid, name) : uid \in StoreUserIds, name \in StoreRepoNames}

StoreInit ==
    /\ RelayIdle
    /\ ClientIdle
    /\ SideIdle

StoreNext ==
    \/ \E uid \in StoreUserIds, url \in StoreRepoUrls, name \in StoreRepoNames,
          d \in StoreDocs : SaveDocsCall(uid, url, name, d)
    \/ \E i \in 1..Len(store) : UpsertRuns(i)
    \/ \E i \in 1..Len(store) : SaveDocsReturns(i)
    \/ \E slug \in StoreSlugs, uid \in StoreUserIds : DeleteProject(slug, uid)

\* ------------------------------------------------------------------------
\* route.ts: the non-streaming POST (refine, generate)
\* ------------------------------------------------------------------------

\* What the agent answers: an object with docs, one without, one with an
\* error.
BatchResults ==
    {[NoFields EXCEPT !["docs"] = <<DocsA>>],
     [NoFields EXCEPT !["docs"] = <<DocsB>>, !["message"] = Str("ok")],
     NoFields,
     [NoFields EXCEPT !["error"] = Str("e")]}

BatchRepoUrls == {<<>>} \cup RepoUrls
BatchRepoNames == {<<>>} \cup StoreRepoNames

\* POST has read the body and the session and waits for refineDocs or
\* generateDocs (route.ts 11-17, 98).
BatchCalled(act, uid, url, name) ==
    [pc |-> "called", action |-> act, userId |-> uid, repo_url |-> url,
     repo_name |-> name, result |-> NoFields, saved |-> "none",
     erased |-> FALSE, response |-> [status |-> 0, body |-> NoFields]]

\* if (userId && result.docs && body.repo_name) / if (userId && result.docs)
Persists(b, result) ==
    /\ Truthy(b.userId)
    /\ Truthy(result["docs"])
    /\ b.action = "refine" => Truthy(b.repo_name)

\* NextResponse.json(result)
JsonResponse(result) == [status |-> 200, body |-> result]

\* NextResponse.json({ ...result, slug })
JsonResponseWithSlug(result, slug) ==
    [status |-> 200, body |-> [result EXCEPT !["slug"] = QuoteStr(slug)]]

\* NextResponse.json({ error: message }, { status: 500 })
ErrorResponse(message) ==
    [status |-> 500, body |-> [NoFields EXCEPT !["error"] = Str(message)]]

\* A persistence failure that unwinds into the outer catch.
ResponseOnRaiseError(result) == ErrorResponse("Unknown error")

\* catch (e) { console.error(...) } and the return after it
\* (route.ts 24-29, 106-111)
ResponseOnRaise(result) == JsonResponse(result)

\* refineDocs or generateDocs returns result; POST answers, or calls
\* saveDocs and waits.
UpstreamReturns(result) ==
    /\ batch.pc = "called"
    /\ IF Persists(batch, result)
       THEN batch' = [batch EXCEPT !.pc = "saving", !.result = result]
       ELSE batch' = [batch EXCEPT !.pc = "responded", !.result = result,
                                   !.response = JsonResponse(result)]
    /\ UNCHANGED <<relayVars, clientVars, store, overlapVars>>

\* refineDocs or generateDocs throws (agent error, deadline): the outer
\* catch answers (route.ts 112-116).
UpstreamThrows ==
    /\ batch.pc = "called"
    /\ batch' = [batch EXCEPT !.pc = "responded", !.saved = "threw",
                              !.response = ErrorResponse("Agent error")]
    /\ UNCHANGED <<relayVars, clientVars, store, overlapVars>>

\* saveDocs, while POST waits for it: prisma.project.upsert writes the row
\* (storage.ts 21-38).
BatchUpsertWrites ==
    /\ batch.pc = "saving"
    /\ ~upserted
    /\ upserted' = TRUE
    /\ db' = Upsert(db, batch.userId, batch.repo_url, BatchRepoName(batch),
                    batch.result["docs"])
    /\ UNCHANGED <<userId, repoUrl, postAnswer, wire, relayPos, upState, timerArmed, rawQueue,
                   readError, cancelledIn, outbound, outState, outCloses,
                   sDecPending, sseBuffer, lastOps, phase, scanIdx, scanEvent,
                   saveArgs, saveCalls, saveResults>>
    /\ UNCHANGED <<clientVars, sideVars>>

\* saveDocs returns { slug } in a later turn (route.ts 22-23, 104-105).
BatchSaveReturns ==
    /\ batch.pc = "saving"
    /\ upserted
    /\ upserted' = FALSE
    /\ UNCHANGED db
    /\ batch' = [batch EXCEPT
                   !.pc = "responded", !.saved = "ok",
                   !.response =
                       JsonResponseWithSlug(batch.result,
                                            SlugOf(batch.userId, BatchRepoName(batch)))]
    /\ UNCHANGED <<userId, repoUrl, postAnswer, wire, relayPos, upState, timerArmed, rawQueue,
                   readError, cancelledIn, outbound, outState, outCloses,
                   sDecPending, sseBuffer, lastOps, phase, scanIdx, scanEvent,
                   saveArgs, saveCalls, saveResults>>
    /\ UNCHANGED <<clientVars, store, overlapVars>>

\* saveDocs rejects: the upsert failed and wrote no row.
BatchSaveRaises ==
    /\ batch.pc = "saving"
    /\ ~upserted
    /\ batch' = [batch EXCEPT !.pc = "responded", !.saved = "raised",
                              !.response = ResponseOnRaise(batch.result)]
    /\ UNCHANGED <<relayVars, clientVars, store, overlapVars>>

BatchInit ==
    /\ RelayIdle
    /\ ClientIdle
    /\ store = <<>>
    /\ NoOverlap
    /\ batch \in {BatchCalled(act, uid, url, name) :
                     act \in {"refine", "generate"}, uid \in UserIds,
                     url \in BatchRepoUrls, name \in BatchRepoNames}

\* Another request deletes a project that is there.
BatchDelete == \E r \in db : DeleteProject(r.slug, r.userId)

BatchNext ==
    \/ \E result \in BatchResults : UpstreamReturns(result)
    \/ UpstreamThrows
    \/ BatchUpsertWrites
    \/ BatchSaveReturns
    \/ BatchSaveRaises
    \/ BatchDelete

\* ------------------------------------------------------------------------
\* The dashboard reading the response of the relay
\* ------------------------------------------------------------------------

E2EFrames == {ProgressFrame, DoneAFrame}

\* A `done` frame that upstream closes on before its blank line, and before
\* the newline of its data line.
DoneNoBlank == SubSeq(DoneAFrame, 1, Len(DoneAFrame) - 1)
DoneNoNewline == SubSeq(DoneAFrame, 1, Len(DoneAFrame) - 2)

\* Streams that do not keep to the framing.
E2ERagged == {DoneGapFrame, DoneNoBlank, DoneNoNewline}

E2ETexts == {Flatten(fs) : fs \in SeqsUpTo(E2EFrames, MaxE2EFrames)} \cup E2ERagged

E2EInit ==
    /\ RelayInitOn(E2ETexts)
    /\ ClientIdle
    /\ SideIdle

\* reader.read() returns n of the bytes enqueued on the readable side.
E2ERead(n) ==
    /\ ClientReadFrom(outbound, n)
    /\ UNCHANGED <<relayVars, sideVars>>

\* reader.read() returns done: the readable side is closed and read up.
E2EReadDone ==
    /\ outState = "closed"
    /\ cPos = Len(outbound)
    /\ LoopLeft
    /\ UNCHANGED <<relayVars, sideVars>>

\* reader.read() rejects: the readable side is errored (page.tsx 162-171).
E2EReadFails ==
    /\ outState = "errored"
    /\ handler = "reading"
    /\ Unwind("network error", "failed")
    /\ UNCHANGED <<relayVars, sideVars>>

E2ENext ==
    \/ \E n \in 1..Len(wire) : Pull(n)
    \/ PullDone
    \/ UpstreamError
    \/ Deadline
    \/ PullRejects
    \/ Transform
    \/ PipeAborts
    \/ FlushStart
    \/ UpsertWrites
    \/ SaveReturns
    \/ FlushReturns
    \/ SaveRaises
    \/ \E n \in 1..Len(outbound) : E2ERead(n)
    \/ E2EReadDone
    \/ E2EReadFails

\* ------------------------------------------------------------------------
\* route.ts: two POSTs in flight
\* ------------------------------------------------------------------------

\* The upstream texts of two runs in flight together.
ConcTexts == {ProgressFrame, DoneAFrame}

\* The upstream texts of the second run.
PeerTexts == {ProgressFrame, DoneBFrame}

\* body.repo_url of the second POST
PeerRepoUrl == <<"h", "/", "Q", ".", "g", "i", "t">>

\* What one POST holds: its request and session, its streams, the decoder
\* and sseBuffer of its closure, and where its flush is.
ThisRun ==
    [userId |-> userId,
     repoUrl |-> repoUrl,
     postAnswer |-> postAnswer,
     wire |-> wire,
     relayPos |-> relayPos,
     upState |-> upState,
     timerArmed |-> timerArmed,
     rawQueue |-> rawQueue,
     readError |-> readError,
     cancelledIn |-> cancelledIn,
     outbound |-> outbound,
     outState |-> outState,
     outCloses |-> outCloses,
     sDecPending |-> sDecPending,
     sseBuffer |-> sseBuffer,
     lastOps |-> lastOps,
     phase |-> phase,
     scanIdx |-> scanIdx,
     scanEvent |-> scanEvent,
     saveArgs |-> saveArgs,
     saveCalls |-> saveCalls,
     saveResults |-> saveResults,
     upserted |-> upserted]

\* The second POST right after it has set up its pipe.
PeerInit(uid, text) ==
    [userId |-> uid, repoUrl |-> PeerRepoUrl, postAnswer |-> StreamResponse,
     wire |-> Encode(text),
     relayPos |-> 0, upState |-> "open", timerArmed |-> TRUE, rawQueue |-> <<>>,
     readError |-> FALSE, cancelledIn |-> "none", outbound |-> <<>>,
     outState |-> "open", outCloses |-> 0, sDecPending |-> <<>>,
     sseBuffer |-> <<>>, lastOps |-> <<>>, phase |-> "piping", scanIdx |-> 0,
     scanEvent |-> <<>>, saveArgs |-> NoArgs, saveCalls |-> <<>>,
     saveResults |-> <<>>, upserted |-> FALSE]

\* A variable of the module, which every POST reads and writes.
ModuleVar(own, current) == current

\* const decoder, let sseBuffer inside POST: each call has its own.
ClosureVar(own, current) == own

\* The other POST takes the next steps: its closure is the one the relay
\* actions run in, and this one's is kept.  The projects table is common to
\* both.
Switch ==
    /\ peer # NoPeer
    /\ peer' = ThisRun
    /\ userId' = peer.userId
    /\ repoUrl' = peer.repoUrl
    /\ postAnswer' = peer.postAnswer
    /\ wire' = peer.wire
    /\ relayPos' = peer.relayPos
    /\ upState' = peer.upState
    /\ timerArmed' = peer.timerArmed
    /\ rawQueue' = peer.rawQueue
    /\ readError' = peer.readError
    /\ cancelledIn' = peer.cancelledIn
    /\ outbound' = peer.outbound
    /\ outState' = peer.outState
    /\ outCloses' = peer.outCloses
    /\ lastOps' = peer.lastOps
    /\ phase' = peer.phase
    /\ scanIdx' = peer.scanIdx
    /\ scanEvent' = peer.scanEvent
    /\ saveArgs' = peer.saveArgs
    /\ saveCalls' = peer.saveCalls
    /\ saveResults' = peer.saveResults
    /\ upserted' = peer.upserted
    /\ sDecPending' = ClosureVar(peer.sDecPending, sDecPending)
    /\ sseBuffer' = ClosureVar(peer.sseBuffer, sseBuffer)
    /\ UNCHANGED <<db, clientVars, store, batch, dashVars>>

ConcInit ==
    /\ RelayInitOn(ConcTexts)
    /\ ClientIdle
    /\ store = <<>>
    /\ batch = NoBatch
    /\ gen = 1
    /\ ended = <<>>
    /\ refining = FALSE
    /\ loads = <<>>
    /\ peer \in {PeerInit(uid, t) : uid \in UserIds, t \in PeerTexts}

ConcNext ==
    \/ \E n \in 1..Len(wire) : Pull(n)
    \/ PullDone
    \/ Transform
    \/ FlushStart
    \/ UpsertWrites
    \/ SaveReturns
    \/ FlushReturns
    \/ SaveRaises
    \/ Switch

\* ------------------------------------------------------------------------
\* Specifications
\* ------------------------------------------------------------------------

Init == RelayCalled(UpstreamTexts) /\ ClientIdle /\ SideIdle

Next == RelayNext

\* One streaming POST: the call of the agent, upstream, the transform
\* stream, flush, saveDocs.
Spec == Init /\ [][Next]_vars

\* One generation of the dashboard on a given response body.
SpecClient == ClientInit /\ [][ClientNext]_vars

\* saveDocs and deleteProject calls on the projects table.
SpecStore == StoreInit /\ [][StoreNext]_vars

\* One non-streaming POST.
SpecBatch == BatchInit /\ [][BatchNext]_vars

\* Generations on the dashboard, each on a given response body.
SpecDash == DashInit /\ [][DashNext]_vars

\* Two POSTs in flight, their steps in any order.
SpecConc == ConcInit /\ [][ConcNext]_vars

\* One generation end to end that the user does not cancel.
SpecE2E == E2EInit /\ [][E2ENext]_vars

\* The same on the run of a progress frame and a done frame.  Relay steps
\* and the reads of the dashboard are taken as long as they can be, and a
\* call of saveDocs returns or raises; the agent and the deadline owe
\* nothing.
E2ELiveInit ==
    /\ RelayInitOn({ProgressFrame \o DoneAFrame})
    /\ ClientIdle
    /\ SideIdle

\* The steps of FlushStart: flush is called.
FlushCalled ==
    /\ phase = "piping"
    /\ outState = "open"
    /\ FlushMayStart
    /\ phase' \in {"saving", "done"}

\* The steps of E2ERead: a read returns bytes that are there.
BytesRead ==
    /\ handler = "reading"
    /\ cPos < Len(outbound)
    /\ cPos' \in (cPos + 1)..Len(outbound)

SpecE2ELive ==
    /\ E2ELiveInit
    /\ [][E2ENext]_vars
    /\ WF_vars(Transform)
    /\ WF_phase(FlushCalled)
    /\ WF_vars(UpsertWrites \/ SaveReturns \/ SaveRaises)
    /\ WF_vars(FlushReturns)
    /\ WF_cPos(BytesRead)
    /\ WF_vars(E2EReadDone)

\* Relay steps are taken as long as they can be, and a call of saveDocs
\* returns or raises.  Transform runs as the response is read: its fairness
\* has the caller keep reading a response it has not cancelled.  The agent
\* and the deadline owe nothing, and the caller may cancel at any time.
LiveInit == RelayCalled(LiveTexts) /\ ClientIdle /\ SideIdle

LiveSpec ==
    /\ LiveInit
    /\ [][Next]_vars
    /\ WF_vars(Transform)
    /\ WF_vars(FlushStart)
    /\ WF_vars(UpsertWrites \/ SaveReturns \/ SaveRaises)
    /\ WF_vars(FlushReturns)

\* ------------------------------------------------------------------------
\* The scan of flush on accumulated texts of every line order
\* ------------------------------------------------------------------------

ScanLines ==
    {<<EventPrefix, "done">>,
     <<EventPrefix, "progress">>,
     <<DataPrefix, LBrace, "docs", Colon, DocsA, RBrace>>,
     <<DataPrefix, LBrace, RBrace>>,
     <<>>}

RECURSIVE JoinLines(_)

\* lines.join("\n")
JoinLines(ls) ==
    IF Len(ls) = 0 THEN <<>>
    ELSE IF Len(ls) = 1 THEN ls[1]
    ELSE ls[1] \o <<NL>> \o JoinLines(Tail(ls))

ScanTexts == {JoinLines(ls) : ls \in SeqsUpTo(ScanLines, MaxScanLines)}

\* The relay when pipeTo is about to close the writable side: upstream has
\* closed, every chunk went through transform, so the outbound bytes are the
\* upstream bytes, sseBuffer is their text, and the last transform (there is
\* one when the body has bytes) has passed its chunk on.
ScanInit ==
    /\ userId \in UserIds
    /\ repoUrl \in RepoUrls
    /\ postAnswer = StreamResponse
    /\ \E t \in ScanTexts :
          /\ wire = Encode(t)
          /\ outbound = Encode(t)
          /\ sseBuffer = IF Truthy(userId) THEN t ELSE <<>>
          /\ lastOps = IF t = <<>> THEN <<>> ELSE TransformOps(userId)
    /\ relayPos = Len(wire)
    /\ upState = "closed"
    /\ timerArmed = FALSE
    /\ rawQueue = <<>>
    /\ readError = FALSE
    /\ cancelledIn = "none"
    /\ outState = "open"
    /\ outCloses = 0
    /\ sDecPending = <<>>
    /\ phase = "piping"
    /\ scanIdx = 0
    /\ scanEvent = <<>>
    /\ saveArgs = NoArgs
    /\ saveCalls = <<>>
    /\ saveResults = <<>>
    /\ db = {}
    /\ upserted = FALSE
    /\ ClientIdle
    /\ SideIdle

ScanNext ==
    \/ FlushStart
    \/ UpsertWrites
    \/ SaveReturns
    \/ FlushReturns
    \/ SaveRaises

SpecScan == ScanInit /\ [][ScanNext]_vars

\* ------------------------------------------------------------------------
\* What a run's upstream text holds
\* ------------------------------------------------------------------------

UpLines == SplitLines(DecodeStream(<<>>, wire).text)

IsEventLine(line) == StartsWith(line, EventPrefix)
IsDataLine(line) == StartsWith(line, DataPrefix)
KindOf(line) == Trim(SlicePrefix(line))
PayloadOf(line) == Trim(SlicePrefix(line))

HasDocs(line) ==
    /\ IsDataLine(line)
    /\ JSONParse(PayloadOf(line)).ok
    /\ Truthy(JSONParse(PayloadOf(line)).val["docs"])

\* A `done` frame with a payload that parses and has docs: the event line,
\* the data line, the blank line.
DoneFramesWithDocs(lines) ==
    {i \in 1..(Len(lines) - 2) :
        /\ IsEventLine(lines[i]) /\ KindOf(lines[i]) = KindDone
        /\ HasDocs(lines[i + 1])
        /\ lines[i + 2] = <<>>}

NoDoneEvent(lines) ==
    \A i \in 1..Len(lines) : ~(IsEventLine(lines[i]) /\ KindOf(lines[i]) = KindDone)

\* The data lines met while the tracked kind is `done`: the last event line
\* before them says done, whatever blank lines lie between.
DoneDataLines(lines) ==
    {i \in 1..Len(lines) :
        /\ IsDataLine(lines[i])
        /\ \E e \in 1..(i - 1) :
              /\ IsEventLine(lines[e]) /\ KindOf(lines[e]) = KindDone
              /\ \A j \in (e + 1)..(i - 1) : ~IsEventLine(lines[j])}

FirstDoneData(lines) ==
    IF DoneDataLines(lines) = {} THEN 0
    ELSE CHOOSE i \in DoneDataLines(lines) : \A j \in DoneDataLines(lines) : i <= j

FirstDoneDataHasDocs(lines) ==
    FirstDoneData(lines) # 0 /\ HasDocs(lines[FirstDoneData(lines)])

\* The saved frame of this run, as bytes.
SavedBytes ==
    Encode(SavedEvent(SlugOf(userId, RepoNameOf(repoUrl)), RepoNameOf(repoUrl)))

\* ------------------------------------------------------------------------
\* Properties
\* ------------------------------------------------------------------------

\* C1 (part): at every moment the bytes enqueued on the outbound stream are
\* a prefix of the upstream bytes, or all of them followed by the one saved
\* frame, which is there only once upstream has closed and every chunk read
\* was forwarded; a closed outbound stream has all upstream bytes.
C1_Shape ==
    /\ IsPrefix(outbound, wire) \/ outbound = wire \o SavedBytes
    /\ Len(outbound) > Len(wire) =>
          upState = "closed" /\ rawQueue = <<>> /\ relayPos = Len(wire)
    /\ outState = "closed" => Len(outbound) >= Len(wire)

\* C1 (part): every change of the outbound stream appends the chunk at the
\* head of the chunks read, as it is, or appends the saved frame to the
\* complete upstream bytes; a chunk taken by a relay that goes on is
\* forwarded.
C1_Step ==
    /\ outbound' # outbound =>
          \/ /\ rawQueue # <<>>
             /\ outbound' = outbound \o Head(rawQueue)
             /\ rawQueue' = Tail(rawQueue)
          \/ /\ outbound = wire
             /\ upState = "closed" /\ rawQueue = <<>>
             /\ outbound' = outbound \o SavedBytes
    /\ (rawQueue # <<>> /\ rawQueue' = <<>> /\ outState' = "open") =>
          outbound' = outbound \o Head(rawQueue)

\* C1: the chunks enqueued on the outbound stream are the upstream chunks in
\* upstream order, followed by at most one saved frame, which is the last
\* thing written and is written only after the last upstream chunk was
\* forwarded and upstream closed.
C1_RelayOrder == []C1_Shape /\ [][C1_Step]_vars

C1_Witness ==
    /\ outState = "closed"
    /\ wire # <<>>
    /\ outbound = wire \o SavedBytes

\* C2 as stated: owner present, upstream sent a `done` frame with docs and
\* closed, flush is over: one saveDocs call, and its success put the saved
\* frame after all upstream bytes.
C2_Original ==
    (/\ phase = "done"
     /\ upState = "closed"
     /\ Truthy(userId)
     /\ DoneFramesWithDocs(UpLines) # {})
    => /\ Len(saveCalls) = 1
       /\ saveResults = <<"ok">> => outbound = wire \o SavedBytes

\* C2 amended: owner present, the first data line met while the tracked kind
\* is `done` has a payload that parses and has docs, upstream closed and
\* flush is over: exactly one saveDocs call, for this session and those
\* docs; when it succeeded and the caller has not cancelled the response,
\* the saved frame with the slug and the repo name follows all upstream
\* bytes.
C2_SavedAfterDone ==
    (/\ phase = "done"
     /\ upState = "closed"
     /\ Truthy(userId)
     /\ FirstDoneDataHasDocs(UpLines))
    => /\ Len(saveCalls) = 1
       /\ saveCalls[1].userId = userId
       /\ saveCalls[1].repoUrl = repoUrl
       /\ saveCalls[1].docs = JSONParse(PayloadOf(UpLines[FirstDoneData(UpLines)])).val["docs"]
       /\ (saveResults = <<"ok">> /\ cancelledIn = "none") =>
             outState = "closed" /\ outbound = wire \o SavedBytes

C2_Witness ==
    /\ Truthy(userId)
    /\ DoneFramesWithDocs(UpLines) # {}
    /\ phase = "done"
    /\ saveResults = <<"ok">>
    /\ outState = "closed"
    /\ outbound = wire \o SavedBytes

\* C3: with no owner the outbound bytes are the upstream bytes forwarded so
\* far (all of them once the stream is closed), nothing is decoded or
\* accumulated, no saved frame is written and saveDocs is not called.
C3_Passthrough ==
    Falsy(userId) =>
        /\ IsPrefix(outbound, wire)
        /\ outState = "closed" => outbound = wire
        /\ sseBuffer = <<>>
        /\ sDecPending = <<>>
        /\ lastOps \in {<<>>, <<"enqueue">>}
        /\ saveCalls = <<>>
        /\ phase # "saving"

C3_Witness ==
    /\ Falsy(userId)
    /\ DoneFramesWithDocs(UpLines) # {}
    /\ outState = "closed"
    /\ outbound = wire

\* C4: when no event line of the upstream text says `done`, saveDocs is
\* never called and no saved frame is written, owner or not (stated from
\* the other end: a call, or bytes that are not upstream's, are there only
\* when some event line says `done`).
C4_NoDoneNoSave ==
    (saveCalls # <<>> \/ phase = "saving" \/ ~IsPrefix(outbound, wire))
        => ~NoDoneEvent(UpLines)

C4_Witness ==
    /\ NoDoneEvent(UpLines)
    /\ Truthy(userId)
    /\ Len(UpLines) > 4
    /\ outState = "closed"
    /\ outbound = wire

\* C5: at most one saveDocs call per relay run; the one call is for the
\* first data line met while the tracked kind is `done`, and later frames
\* are not considered.
C5_SingleFire ==
    /\ Len(saveCalls) <= 1
    /\ saveCalls # <<>> =>
          /\ FirstDoneDataHasDocs(UpLines)
          /\ scanIdx = FirstDoneData(UpLines)
          /\ saveCalls[1].docs =
                JSONParse(PayloadOf(UpLines[FirstDoneData(UpLines)])).val["docs"]

C5_Witness ==
    /\ Cardinality(DoneFramesWithDocs(UpLines)) = 2
    /\ phase = "done"
    /\ Len(saveCalls) = 1
    /\ saveResults = <<"ok">>

\* C6: when saveDocs raised, the flush is over with the outbound bytes being
\* exactly the upstream bytes (the `done` frame among them, no saved frame,
\* no error frame), the outbound stream is not errored, and it is closed
\* unless the caller cancelled it.
C6_SaveRaises ==
    (saveResults # <<>> /\ saveResults[Len(saveResults)] = "raised") =>
        /\ phase = "done"
        /\ outbound = wire
        /\ DoneDataLines(UpLines) # {}
        /\ outState # "errored"
        /\ cancelledIn = "none" => outState = "closed" /\ outCloses = 1

C6_Witness ==
    /\ saveResults = <<"raised">>
    /\ outState = "closed"
    /\ outbound = wire

\* C7: once a read of upstream was rejected (transport failure, deadline) or
\* the caller cancelled the response while the pipe ran, saveDocs is not
\* called and no saved frame is written, whatever was accumulated, and
\* upstream is no longer read.  The outbound stream is cancelled at once by
\* a cancel; after a rejected read it is errored once the one write that
\* was in flight is done and the pipe has aborted the writable side, and
\* until then nothing but that write and that abort (or a cancel) goes on.
C7_NoSaveOnAbort ==
    (readError \/ cancelledIn = "piping") =>
        /\ saveCalls = <<>>
        /\ IsPrefix(outbound, wire)
        /\ upState \notin {"open", "failing"}
        /\ ~ENABLED FlushStart
        /\ ~ENABLED PullDone
        /\ \A n \in 1..Len(wire) : ~ENABLED Pull(n)
        /\ cancelledIn = "piping" => phase = "aborted" /\ outState = "cancelled"
        /\ phase = "aborted" =>
              /\ rawQueue = <<>>
              /\ outState = (IF cancelledIn = "piping" THEN "cancelled" ELSE "errored")
        /\ phase # "aborted" =>
              /\ phase = "piping"
              /\ outState = "open"
              /\ Len(rawQueue) <= 1
              /\ IF rawQueue = <<>> THEN ENABLED PipeAborts ELSE ENABLED Transform

C7_Witness ==
    /\ readError
    /\ Truthy(userId)
    /\ DoneFramesWithDocs(SplitLines(sseBuffer)) # {}
    /\ outbound = wire

\* C8: a transform enqueues the chunk before it accumulates it, what is
\* accumulated is what was forwarded, and a saveDocs call is made only when
\* upstream has closed and every upstream byte is on the outbound stream.
C8_ForwardFirst ==
    /\ lastOps # <<>> => Head(lastOps) = "enqueue"
    /\ Truthy(userId) =>
          LET seen == Encode(sseBuffer) \o sDecPending
          IN /\ IsPrefix(seen, outbound)
             /\ Len(outbound) <= Len(wire) => seen = outbound
    /\ saveCalls # <<>> =>
          /\ upState = "closed"
          /\ rawQueue = <<>>
          /\ relayPos = Len(wire)
          /\ IsPrefix(wire, outbound)

C8_Witness ==
    /\ phase = "saving"
    /\ lastOps = <<"enqueue", "accumulate">>
    /\ Len(wire) > 20

\* C9 (part): the outbound stream is closed at most once, and only when
\* upstream has closed and flush is over with every saveDocs call returned
\* or raised; a flush that is over has closed it unless the caller cancelled.
C9_Safety ==
    /\ outCloses <= 1
    /\ outState = "closed" =>
          /\ outCloses = 1
          /\ upState = "closed"
          /\ phase = "done"
          /\ Len(saveResults) = Len(saveCalls)
    /\ (phase = "done" /\ cancelledIn = "none") => outState = "closed"

\* C9: after upstream closes naturally the outbound stream is closed exactly
\* once, after the completion handler has finished, and (saveDocs returning
\* or raising) it does not stay open.
C9_ClosesOnce == []C9_Safety /\ ((upState = "closed") ~> (outState # "open"))

C9_Witness ==
    /\ outState = "closed"
    /\ outCloses = 1
    /\ Len(saveResults) = 1

\* C10: whatever the chunks the response body arrives in, the frames
\* dispatched after the bytes read so far are those dispatched when the
\* same bytes arrive as one chunk.
C10_ChunkIndependence ==
    dispatched =
        ClientChunk(ClientSt0, <<>>, <<>>, SubSeq(cWire, 1, cPos)).st.dispatched

C10_Witness ==
    /\ cDecPending # <<>>
    /\ Len(dispatched) = 1
    /\ buffer # <<>>
    /\ cPos > 0

\* ------------------------------------------------------------------------
\* What the dashboard has read of the response body
\* ------------------------------------------------------------------------

\* The lines of the body read so far that are complete (a line break
\* follows them).
LinesRead(body) ==
    LET l == SplitLines(DecodeStream(<<>>, SubSeq(body, 1, cPos)).text)
    IN SubSeq(l, 1, Len(l) - 1)

\* The frames among lines (event line, data line, blank line) whose payload
\* parses, and those whose payload does not, by the index of the event line.
ParsedFrames(lines) ==
    {i \in 1..(Len(lines) - 2) :
        /\ IsEventLine(lines[i]) /\ IsDataLine(lines[i + 1]) /\ lines[i + 2] = <<>>
        /\ JSONParse(PayloadOf(lines[i + 1])).ok}

MalformedFrames(lines) ==
    {i \in 1..(Len(lines) - 2) :
        /\ IsEventLine(lines[i]) /\ IsDataLine(lines[i + 1]) /\ lines[i + 2] = <<>>
        /\ ~JSONParse(PayloadOf(lines[i + 1])).ok}

\* The state of the dashboard after the body read so far, had it arrived as
\* one chunk.
AfterRead(body) == ClientChunk(ClientSt0, <<>>, <<>>, SubSeq(body, 1, cPos)).st

Dispatched(kind) == \E i \in 1..Len(dispatched) : dispatched[i].kind = kind

\* C13 (part): the frames dispatched are as many as the frames read whose
\* payload parses: a frame whose payload does not parse stops nothing.
C13_AllParsedDispatched ==
    Len(dispatched) = Cardinality(ParsedFrames(LinesRead(cWire)))

\* C13 (part): a read that dispatches no frame changes nothing of docs,
\* error, progress and slug.
C13_Step ==
    (handler = "reading" /\ handler' = "reading" /\ dispatched' = dispatched) =>
        UNCHANGED <<docs, error, progress, progressMessage, currentSlug,
                    currentRepoName, refreshes>>

\* C13: a frame whose payload does not parse changes no state of the
\* dashboard and does not stop decoding: every well-formed frame after it
\* is dispatched.
C13_MalformedSkipped == []C13_AllParsedDispatched /\ [][C13_Step]_vars

C13_Witness ==
    /\ handler = "closed"
    /\ Len(dispatched) = 1
    /\ \E i \in MalformedFrames(LinesRead(cWire)) :
          \E j \in ParsedFrames(LinesRead(cWire)) : i < j
    /\ error = Absent

\* C14 as stated: the dashboard stops streaming (generating) only on an
\* error frame or the close of the stream, a frame that does not parse never
\* stops it, and an error frame does: once it is dispatched the dashboard
\* is failed and streams no longer.
C14_Original ==
    /\ (~generating /\ handler \notin {"aborting", "aborted"}) =>
          (Dispatched(<<"error">>) \/ handler = "closed")
    /\ Dispatched(<<"error">>) => (~generating /\ handler # "reading")

\* The calls of handleGenerate that handleCancel has aborted.
Cancelled == {"aborting", "aborted", "swallowing", "swallowed"}

\* What a refine or a load from the history list sets docs to.
LoadedDocs == ResJson(Encode(DocsBody)).val["docs"]

C11_NoDocsNoOp ==
    (/\ Truthy(userId)
     /\ FirstDoneData(UpLines) # 0
     /\ ~HasDocs(UpLines[FirstDoneData(UpLines)])) =>
        /\ saveCalls = <<>>
        /\ phase # "saving"
        /\ IsPrefix(outbound, wire)
        /\ outState = "errored" => readError
        /\ phase = "done" =>
              /\ outState = "closed"
              /\ outCloses = 1
              /\ outbound = wire

C11_Witness ==
    /\ Truthy(userId)
    /\ FirstDoneData(UpLines) # 0
    /\ ~JSONParse(PayloadOf(UpLines[FirstDoneData(UpLines)])).ok
    /\ DoneFramesWithDocs(UpLines) # {}
    /\ phase = "done"
    /\ outState = "closed"
    /\ outbound = wire

\* ------------------------------------------------------------------------
\* Storage runs
\* ------------------------------------------------------------------------

RowsOf(slug) == {r \in db : r.slug = slug}

SameCall(i, j) ==
    /\ store[i].userId = store[j].userId
    /\ store[i].repoName = store[j].repoName
    /\ store[i].docs = store[j].docs

\* The calls whose upsert has run and whose row no deleteProject has
\* removed since.
Standing == {i \in Written : ~store[i].erased}

\* The call whose upsert ran last among those for slug.
LastWriter(slug) ==
    CHOOSE i \in Standing :
        /\ store[i].slug = slug
        /\ \A k \in Standing : store[k].slug = slug => store[k].order <= store[i].order

\* C17: calls with the same userId and repoName have the same slug,
\* whatever their docs and repoUrl and whatever the table holds; and after
\* two calls with identical (userId, repoName, docs), nothing else having
\* been written under that slug and no deleteProject having removed its
\* row, there is exactly one row for the slug and its docs are those of the
\* first call.
C17_Idempotent ==
    \A i, j \in 1..Len(store) :
        /\ (store[i].userId = store[j].userId /\ store[i].repoName = store[j].repoName)
              => store[i].slug = store[j].slug
        /\ (/\ i < j
            /\ SameCall(i, j)
            /\ i \in Standing /\ j \in Standing
            /\ \A k \in Standing :
                  store[k].slug = store[i].slug => store[k].docs = store[i].docs)
           => /\ Cardinality(RowsOf(store[i].slug)) = 1
              /\ \A r \in RowsOf(store[i].slug) : r.docs = store[i].docs

C17_Witness ==
    /\ Len(store) = 2
    /\ SameCall(1, 2)
    /\ store[1].repoUrl # store[2].repoUrl
    /\ store[1].pc = "returned" /\ store[2].pc = "returned"
    /\ store[1].order = 1
    /\ Cardinality(db) = 1

\* C18: whatever the order in which the upserts of the calls in flight
\* run, a slug written to (and not deleted since) has exactly one row, and
\* its docs are those of the call whose upsert ran last.
C18_LastWriteWins ==
    \A i \in Standing :
        /\ Cardinality(RowsOf(store[i].slug)) = 1
        /\ \A r \in RowsOf(store[i].slug) :
              r.docs = store[LastWriter(store[i].slug)].docs

C18_Witness ==
    /\ Len(store) = 2
    /\ store[1].userId = store[2].userId
    /\ store[1].slug = store[2].slug
    /\ store[1].docs # store[2].docs
    /\ store[1].order = 2 /\ store[2].order = 1
    /\ store[1].pc = "returned" /\ store[2].pc = "returned"
    /\ \A r \in db : r.docs = store[1].docs

\* C19 as stated: calls of two distinct users never have the same slug, and
\* a row holds the docs of no user but the one it belongs to.
C19_Original ==
    /\ \A i, j \in 1..Len(store) :
          store[i].userId # store[j].userId => store[i].slug # store[j].slug
    /\ \A i \in Written : \A r \in RowsOf(store[i].slug) : r.userId = store[i].userId

\* ------------------------------------------------------------------------
\* The non-streaming POST
\* ------------------------------------------------------------------------

\* C20: when refineDocs or generateDocs has returned and POST has answered,
\* the answer is a 200 whose body has every field of the upstream result as
\* it is, and a slug exactly when saveDocs was called and returned: the slug
\* of the row written (which is there unless a deleteProject has removed it
\* since).  saveDocs is called exactly when there is an owner
\* and the result has docs (and, on refine, the body names the repo); when
\* it raises the answer is the upstream result without slug.
C20_SlugIffPersisted ==
    (batch.pc = "responded" /\ batch.saved # "threw") =>
        /\ batch.response.status = 200
        /\ \A k \in JsonKeys \ {"slug"} : batch.response.body[k] = batch.result[k]
        /\ batch.response.body["slug"] # Absent <=> batch.saved = "ok"
        /\ batch.saved # "none" <=> Persists(batch, batch.result)
        /\ batch.saved = "ok" =>
              batch.response.body["slug"] =
                  QuoteStr(SlugOf(batch.userId, BatchRepoName(batch)))
        /\ (batch.saved = "ok" /\ ~batch.erased) =>
              \E r \in db : /\ batch.response.body["slug"] = QuoteStr(r.slug)
                             /\ r.docs = batch.result["docs"]
                             /\ r.userId = batch.userId
        /\ batch.saved # "ok" => db = {}

C20_Witness ==
    /\ batch.pc = "responded"
    /\ batch.saved = "raised"
    /\ batch.action = "refine"
    /\ batch.response.status = 200
    /\ batch.response.body["docs"] = <<DocsB>>

\* ------------------------------------------------------------------------
\* End to end
\* ------------------------------------------------------------------------

Kinds(frames) == [i \in 1..Len(frames) |-> frames[i].kind]

\* Owner present, upstream sends a progress frame and then a done frame with
\* docs.
ProgressThenDone ==
    /\ Truthy(userId)
    /\ wire = Encode(ProgressFrame \o DoneAFrame)

\* C12 (part): the dashboard dispatches progress, done, saved in this
\* order; after progress the progress value is the frame's, after done the
\* docs are stored and progress is 100, and the generation goes on reading;
\* a saved frame is dispatched only after saveDocs has returned, and then
\* the slug recorded is the non-empty slug of the row written.
C12_Order ==
    ProgressThenDone =>
        /\ IsPrefix(Kinds(dispatched), <<<<"progress">>, KindDone, <<"saved">>>>)
        /\ Len(dispatched) = 0 => progress = <<"0">> /\ docs = Absent
        /\ Len(dispatched) = 1 => progress = <<"10">> /\ docs = Absent
        /\ Len(dispatched) >= 2 => progress = <<"100">> /\ docs = <<DocsA>>
        /\ Len(dispatched) < 3 => currentSlug = Absent
        /\ (Len(dispatched) = 2 /\ handler = "closed") => saveResults # <<"ok">>
        /\ Len(dispatched) = 3 =>
              /\ saveResults = <<"ok">>
              /\ currentSlug = QuoteStr(SlugOf(userId, RepoNameOf(repoUrl)))
              /\ Len(currentSlug) > 2
              /\ \E r \in db : QuoteStr(r.slug) = currentSlug /\ r.docs = docs
        /\ error = Absent \/ handler = "failed"

\* C12: with an owner, a progress frame and a done frame with docs from
\* upstream and a saveDocs that succeeds, the dashboard applies the effects
\* in the order of arrival, and once the relay has closed the response the
\* generation ends having read the saved frame and recorded its slug.
C12_EndToEnd ==
    /\ []C12_Order
    /\ (ProgressThenDone /\ outState = "closed" /\ saveResults = <<"ok">>)
           ~> (/\ handler = "closed"
               /\ Kinds(dispatched) = <<<<"progress">>, KindDone, <<"saved">>>>
               /\ currentSlug = QuoteStr(SlugOf(userId, RepoNameOf(repoUrl))))

C12_Witness ==
    /\ ProgressThenDone
    /\ handler = "closed"
    /\ Len(dispatched) = 3
    /\ currentSlug = QuoteStr(<<"r", "-", "u", "1">>)
    /\ docs = <<DocsA>>

\* Upstream sends progress frames and nothing else, at least one.
OnlyProgress ==
    /\ wire # <<>>
    /\ \A i \in 1..Len(UpLines) :
          IsEventLine(UpLines[i]) => KindOf(UpLines[i]) = <<"progress">>

\* C15: upstream sends only progress frames: the relay calls saveDocs never
\* and writes no saved frame, and closes the response with the upstream
\* bytes; the dashboard is generating as long as its handler reads, the
\* handler leaves the loop only when the response is closed (or its
\* transport failed), and a generation that ended on the close has no docs,
\* no error and no slug.
C15_NoDoneNoResult ==
    OnlyProgress =>
        /\ saveCalls = <<>>
        /\ IsPrefix(outbound, wire)
        /\ outState = "closed" => outbound = wire
        /\ handler = "reading" => generating
        /\ handler = "closed" =>
              /\ outState = "closed"
              /\ cPos = Len(wire)
              /\ docs = Absent
              /\ error = Absent
              /\ currentSlug = Absent
        /\ handler = "failed" => outState = "errored"
        /\ docs = Absent

C15_Witness ==
    /\ OnlyProgress
    /\ Truthy(userId)
    /\ handler = "closed"
    /\ Len(dispatched) = 2
    /\ progress = <<"10">>
    /\ ~generating

\* ------------------------------------------------------------------------
\* C23, C24: the blank-line rule of the scan
\* ------------------------------------------------------------------------

ScanLinesOf == SplitLines(DecodeStream(<<>>, wire).text)

\* The last event line before line i, 0 when there is none.
LastEventBefore(lines, i) ==
    IF \E e \in 1..(i - 1) : IsEventLine(lines[e])
    THEN CHOOSE e \in 1..(i - 1) :
            IsEventLine(lines[e]) /\ \A j \in (e + 1)..(i - 1) : ~IsEventLine(lines[j])
    ELSE 0

BlankBetween(lines, e, i) == \E j \in (e + 1)..(i - 1) : lines[j] = <<>>

\* C23: in the scan of flush a blank line empties the tracked kind unless it
\* is `done`.  Once flush has scanned the text of an owner's run: the first
\* data line whose last event line before it says done, with docs in its
\* payload, is the line saveDocs is called for, also when blank lines lie
\* between the two; and the line saveDocs is called for is never a data
\* line whose last event line before it says another kind (or that has no
\* event line before it), blank lines between or not.
C23_BlankLineRule ==
    (Truthy(userId) /\ phase # "piping") =>
        LET lines == ScanLinesOf IN
        /\ FirstDoneDataHasDocs(lines) =>
              /\ Len(saveCalls) = 1
              /\ phase = "saving" => scanIdx = FirstDoneData(lines)
              /\ saveCalls[1].docs =
                    JSONParse(PayloadOf(lines[FirstDoneData(lines)])).val["docs"]
        /\ \A i \in 1..Len(lines) :
              (/\ IsDataLine(lines[i])
               /\ \/ LastEventBefore(lines, i) = 0
                  \/ KindOf(lines[LastEventBefore(lines, i)]) # KindDone)
              => ~(phase = "saving" /\ scanIdx = i)
        /\ saveCalls # <<>> => FirstDoneDataHasDocs(lines)

\* saveDocs is called for a data line that follows its `event: done` line
\* across a blank line, in a text where a data line with docs follows a
\* blank line after another kind first.
C23_Witness ==
    /\ phase = "saving"
    /\ BlankBetween(ScanLinesOf, LastEventBefore(ScanLinesOf, scanIdx), scanIdx)
    /\ \E i \in 1..(scanIdx - 1) :
          /\ HasDocs(ScanLinesOf[i])
          /\ LastEventBefore(ScanLinesOf, i) # 0
          /\ KindOf(ScanLinesOf[LastEventBefore(ScanLinesOf, i)]) # KindDone
          /\ BlankBetween(ScanLinesOf, LastEventBefore(ScanLinesOf, i), i)

RECURSIVE ScanResetting(_, _, _)

\* The scan that empties the tracked kind on every blank line: the docs it
\* finds, Absent when it finds none.
ScanResetting(lines, i, ev) ==
    IF i > Len(lines) THEN Absent
    ELSE IF IsEventLine(lines[i]) THEN ScanResetting(lines, i + 1, KindOf(lines[i]))
    ELSE IF IsDataLine(lines[i]) /\ ev = KindDone
    THEN IF HasDocs(lines[i])
         THEN JSONParse(PayloadOf(lines[i])).val["docs"]
         ELSE Absent
    ELSE IF lines[i] = <<>> THEN ScanResetting(lines, i + 1, <<>>)
    ELSE ScanResetting(lines, i + 1, ev)

\* Each `event: done` line is immediately followed by a data line.
DoneDataAdjacent(lines) ==
    \A i \in 1..Len(lines) :
        (IsEventLine(lines[i]) /\ KindOf(lines[i]) = KindDone)
        => (i < Len(lines) /\ IsDataLine(lines[i + 1]))

\* What flush found in the text: the docs of its saveDocs call, Absent when
\* it made none.
FoundByFlush == IF saveCalls = <<>> THEN Absent ELSE saveCalls[1].docs

\* C24: on an accumulated text in which each `event: done` line is
\* immediately followed by its data line, flush finds what a scan that
\* empties the tracked kind on every blank line finds: the same docs or
\* nothing.  So the two differ only on a text where some `event: done` line
\* is not immediately followed by a data line.
C24_QuirkInert ==
    (Truthy(userId) /\ phase # "piping") =>
        /\ DoneDataAdjacent(ScanLinesOf) =>
              FoundByFlush = ScanResetting(ScanLinesOf, 1, <<>>)
        /\ FoundByFlush # ScanResetting(ScanLinesOf, 1, <<>>) =>
              ~DoneDataAdjacent(ScanLinesOf)

\* flush called saveDocs for a `done` frame that comes after a blank line
\* and a data line with docs of no kind, in a text where each `event: done`
\* line is immediately followed by its data line.
C24_Witness ==
    /\ phase = "saving"
    /\ DoneDataAdjacent(ScanLinesOf)
    /\ scanIdx > 3
    /\ \E i \in 2..(scanIdx - 2) :
          ScanLinesOf[i - 1] = <<>> /\ HasDocs(ScanLinesOf[i])
    /\ FoundByFlush = ScanResetting(ScanLinesOf, 1, <<>>)

\* ------------------------------------------------------------------------
\* C28: completed and failed exclude each other
\* ------------------------------------------------------------------------

\* C28 as stated: whatever frames of one generation the dashboard has read,
\* it never holds docs (completed) and an error (failed) at once.
C28_Original == ~(docs # Absent /\ error # Absent)

\* ------------------------------------------------------------------------
\* C30: the deadline timer
\* ------------------------------------------------------------------------

\* C30 as stated: once the call or the relay lifetime is over, by an answer
\* that is not ok, a missing body, a rejected fetch, the natural end of the
\* stream, a cancel of the consumer or a read error in the middle of the
\* stream, the deadline timer of generateDocsStream is no longer armed.
C30_Original == phase \in {"failed", "done", "aborted"} => ~timerArmed

\* ------------------------------------------------------------------------
\* C22: the history re-fetch and the persistence of the docs
\* ------------------------------------------------------------------------

\* C22 as stated: in an owner's generation the dashboard has called
\* refreshHistory only when saveDocs has returned for the docs of that
\* generation, which are then in the projects table.
C22_Original ==
    (Truthy(userId) /\ refreshes > 0) =>
        /\ saveResults = <<"ok">>
        /\ \E row \in db : row.docs = docs

\* ------------------------------------------------------------------------
\* C25, C26: what the dashboard makes of the relay's saved frame
\* ------------------------------------------------------------------------

\* The relay's saveDocs call returned and its saved frame is on the wire.
SavedAppended == saveResults = <<"ok">> /\ outbound = wire \o SavedBytes

DocsOfFrame(f) == JSONParse(f.payload).val["docs"]

SavedDispatches == {k \in 1..Len(dispatched) : dispatched[k].kind = <<"saved">>}

\* C25 as stated: when the relay has persisted docs and appended the saved
\* frame, a saved frame that the dashboard has dispatched comes after a done
\* frame it dispatched with those same docs.
C25_Original ==
    SavedAppended =>
        \A k \in SavedDispatches :
            \E j \in 1..(k - 1) :
                /\ dispatched[j].kind = KindDone
                /\ DocsOfFrame(dispatched[j]) = saveCalls[1].docs

\* C26 as stated: when the relay has appended the saved frame and the
\* dashboard has read the response to its end, it has dispatched exactly one
\* saved frame, which set the relay's slug and repo name.
C26_Original ==
    (SavedAppended /\ handler = "closed") =>
        /\ Cardinality(SavedDispatches) = 1
        /\ currentSlug = QuoteStr(SlugOf(userId, RepoNameOf(repoUrl)))
        /\ currentRepoName = QuoteStr(RepoNameOf(repoUrl))

\* ------------------------------------------------------------------------
\* C27, C29: one generation after another on the dashboard
\* ------------------------------------------------------------------------

\* The slug that the saved frame of the responses carries, and nothing else
\* does: the JSON answers and the history list have slugs of their own.
SavedSlug == QuoteStr(<<"r", "-", "u", "1">>)

\* C27 as stated: when a generation has ended, its response read to the end
\* with no saved frame dispatched, the dashboard holds no slug that a saved
\* frame has set.
C27_Original ==
    (handler = "closed" /\ SavedDispatches = {}) => currentSlug # SavedSlug

\* C29: while a call of handleGenerate is at one of its awaits, generating
\* is true and abortRef holds the controller that this call has made,
\* however the earlier calls have ended; once it has been aborted or has
\* returned, generating is false and abortRef holds no controller.  The
\* catch and finally of an earlier call have run before the next call
\* starts, so they clear nothing of it.
C29_OwnController ==
    /\ handler \in InFlight => (generating /\ abortRef = Controller(gen))
    /\ handler \notin InFlight => (~generating /\ abortRef = NoController)

\* The second generation reads its response after the first one was
\* cancelled and has unwound.
C29_Witness ==
    /\ gen = 2
    /\ ended = <<"aborted">>
    /\ handler = "reading"
    /\ cPos > 0
    /\ generating
    /\ abortRef = Controller(2)

\* ------------------------------------------------------------------------
\* C21: two relay runs in flight
\* ------------------------------------------------------------------------

UpText == DecodeStream(<<>>, wire).text

OwnSlug == SlugOf(userId, RepoNameOf(repoUrl))

\* C21: with two relay runs in flight and their steps in any order, what a
\* run has accumulated is a prefix of the text of its own upstream bytes
\* (nothing without an owner); it calls saveDocs exactly when it has an
\* owner and the first `done` data line of its own text has docs, once,
\* for its own session and those docs; a call that returned left those docs
\* in the row of the run's slug; and its outbound bytes are its own
\* upstream bytes, followed by the saved frame of its own slug and repo
\* name when the call returned.
C21_Isolation ==
    /\ IF Truthy(userId)
       THEN sseBuffer = SubSeq(UpText, 1, Len(sseBuffer))
       ELSE sseBuffer = <<>>
    /\ saveCalls # <<>> =>
          /\ Truthy(userId)
          /\ FirstDoneDataHasDocs(UpLines)
          /\ saveCalls =
                <<[userId |-> userId, repoUrl |-> repoUrl,
                   repoName |-> RepoNameOf(repoUrl),
                   docs |-> JSONParse(PayloadOf(UpLines[FirstDoneData(UpLines)])).val["docs"]]>>
    /\ (phase = "done" /\ Truthy(userId) /\ FirstDoneDataHasDocs(UpLines)) =>
          Len(saveCalls) = 1
    /\ saveResults = <<"ok">> =>
          /\ \E row \in db : row.slug = OwnSlug /\ row.docs = saveCalls[1].docs
          /\ outbound = wire \o SavedBytes
    /\ saveResults # <<"ok">> => outbound = SubSeq(wire, 1, Len(outbound))

\* Both runs are over, each of an owner, each has persisted the docs of its
\* own `done` frame, which differ, and the table holds both rows.
C21_Witness ==
    /\ peer # NoPeer
    /\ phase = "done" /\ peer.phase = "done"
    /\ saveResults = <<"ok">> /\ peer.saveResults = <<"ok">>
    /\ saveCalls[1].docs # peer.saveCalls[1].docs
    /\ Cardinality(db) = 2

====
